---- MODULE Spec2Model ----
(***************************************************************************)
(* Hybrid property search of the real estate bot:                          *)
(*   src/src/tools/property_search.py   execute_hybrid_search              *)
(*   src/src/database/mongo_client.py   PropertyDatabase                   *)
(*   src/src/tools/rtvi_messaging.py    schedule_rtvi_message and the      *)
(*                                      transmission coroutines            *)
(* The search runs on a worker thread (pc); the transmission coroutine     *)
(* runs on the session's event loop (task).                                *)
(*                                                                         *)
(* Python values whose type varies at run time are tagged records          *)
(* [t |-> "none"], [t |-> "str", v |-> ...], ...; a dict is a function     *)
(* whose domain is its key set; text that the code inspects is a sequence  *)
(* of one-character strings.                                               *)
(***************************************************************************)
EXTENDS Integers, Sequences, FiniteSets, TLC

VARIABLES
    OPENAI_API_KEY,    \* settings.OPENAI_API_KEY: TRUE iff a non-empty key is configured
    pc,                \* position of the worker thread in execute_hybrid_search
    args,              \* the arguments of the current invocation
    debug_log,         \* the debug_log list of the current invocation
    embedding_vector,  \* local of execute_hybrid_search
    pipeline,          \* local of execute_hybrid_search
    results,           \* local of execute_hybrid_search (raw matches)
    outcome,           \* the dict the invocation is about to return / has returned
    raised,            \* TRUE iff the invocation ended by an exception reaching the caller
    failed_in,         \* history: the stage that failed and the exception text it raised
    calls,             \* history: the collaborators called by this invocation, in order
    open_clients,      \* MongoClient objects opened and not closed
    task,              \* the coroutine handed to the event loop by this invocation
    sent,              \* frames the session received from this invocation's coroutine
    pushed,            \* history: the frames handed to push_frame by that coroutine
    rtvi_log,          \* what rtvi_messaging.py logged for this invocation
    db_client,         \* the attributes of the PropertyDatabase object of line 25
    time_readings,     \* time.time() - start_time as the n-th call of log_debug reads it
    embedding_request, \* history: the input of embeddings.create in this invocation
    format_calls,      \* history: the calls of format_search_results in this invocation
    other,             \* the locals of a second invocation while its thread is not running
    tools,             \* RealEstateBot.strands_agent.tools
    handlers,          \* the invocations of handle_property_search_queries in progress
    tool_calls,        \* history: the handles each search called by the agent received
    DAILY_SAMPLE_ROOM_URL, \* the environment variable read by create_room_and_token
    bot_jobs,          \* the module-level dict of app.py
    spawned,           \* history: the bot jobs spawned by start(), with their room
    cancel_calls,      \* history: the calls of FunctionCall.cancel made by cleanup()
    lifespan           \* position of the web server: serving, in cleanup(), stopped

vars == <<OPENAI_API_KEY, pc, args, debug_log, embedding_vector, pipeline,
          results, outcome, raised, failed_in, calls, open_clients, task, sent, pushed, rtvi_log,
          db_client, time_readings, embedding_request, format_calls,
          other, tools, handlers, tool_calls,
          DAILY_SAMPLE_ROOM_URL, bot_jobs, spawned, cancel_calls, lifespan>>

\* the variables of the search, of the bot and of the web server
searchVars == <<OPENAI_API_KEY, pc, args, debug_log, embedding_vector, pipeline,
                results, outcome, raised, failed_in, calls, open_clients, task, sent, pushed,
                rtvi_log, db_client, time_readings, embedding_request, format_calls>>
botVars == <<tools, handlers, tool_calls>>
webVars == <<DAILY_SAMPLE_ROOM_URL, bot_jobs, spawned, cancel_calls, lifespan>>

----------------------------------------------------------------------------
(* Bounds of the model *)

MaxQueryLen == 2       \* longest query text
MaxResults == 2        \* most raw matches the store returns
MaxLeaked == 1         \* invocations stop once more clients than this are left open
MaxDescLen == 202      \* longest description of a raw match
MaxImages == 4         \* most analyzed images of a raw match
MaxFormatCalls == 4    \* most calls of the formatter on one list of raw matches
MaxLimit == 21         \* largest limit argument
MaxClock == 1          \* largest clock reading, in hundredths of a second
MaxHandlers == 2       \* most invocations of the search handler in progress at once
MaxToolCalls == 2      \* most searches the agent calls in the model
MaxStarts == 6         \* most bot jobs spawned by the web server

(* Program constants *)

DEFAULT_SEARCH_LIMIT == 10
RTVI_MESSAGE_TIMEOUT == 5
RTVI_ERROR_TIMEOUT == 3
DESCRIPTION_CHARS == 200
IMAGES_SHOWN == 3
LOG_CALLS == 6         \* log_debug is called at most 6 times in one invocation

----------------------------------------------------------------------------
(* Python values *)

None == [t |-> "none"]
Str(s) == [t |-> "str", v |-> s]
Num(n) == [t |-> "num", v |-> n]
Bool(b) == [t |-> "bool", v |-> b]
List(l) == [t |-> "list", v |-> l]
Dict(d) == [t |-> "dict", v |-> d]

EmptyDict == [k \in {} |-> None]

\* dict.get(key, default)
Get(d, key, default) == IF key \in DOMAIN d THEN d[key] ELSE default

\* bool(value) for the tagged values
Truthy(x) ==
    CASE x.t = "none" -> FALSE
      [] x.t = "str"  -> x.v # <<>>
      [] x.t = "num"  -> x.v # 0
      [] x.t = "bool" -> x.v
      [] x.t = "list" -> x.v # <<>>
      [] x.t = "dict" -> DOMAIN x.v # {}
      [] OTHER        -> TRUE

Whitespace == {" "}

RECURSIVE LStrip(_)
LStrip(s) == IF s # <<>> /\ Head(s) \in Whitespace THEN LStrip(Tail(s)) ELSE s

RECURSIVE RStrip(_)
RStrip(s) ==
    IF s # <<>> /\ s[Len(s)] \in Whitespace THEN RStrip(SubSeq(s, 1, Len(s) - 1)) ELSE s

\* str.strip()
Strip(s) == RStrip(LStrip(s))

\* s[:n]
Prefix(s, n) == SubSeq(s, 1, IF Len(s) < n THEN Len(s) ELSE n)

Min(a, b) == IF a < b THEN a ELSE b

----------------------------------------------------------------------------
(* Results of calls that may raise: Return(v) or Raise(exception text) *)

Return(v) == [ok |-> TRUE, v |-> v]
Raise(e) == [ok |-> FALSE, exc |-> e]

----------------------------------------------------------------------------
(* PropertyDatabase, src/src/database/mongo_client.py *)

RegexSpecial == {"."}

\* re.escape on a sequence of characters
RECURSIVE re_escape(_)
re_escape(s) ==
    IF s = <<>> THEN <<>>
    ELSE (IF Head(s) \in RegexSpecial THEN <<"\\", Head(s)>> ELSE <<Head(s)>>)
         \o re_escape(Tail(s))

\* price_filter, with the two bounds exchanged
price_filter_exchanged(min_price, max_price) ==
    [k \in (IF min_price # None THEN {"$lte"} ELSE {})
            \cup (IF max_price # None THEN {"$gte"} ELSE {})
        |-> IF k = "$lte" THEN min_price ELSE max_price]

\* lines 55-61
price_filter(min_price, max_price) ==
    [k \in (IF min_price # None THEN {"$gte"} ELSE {})
            \cup (IF max_price # None THEN {"$lte"} ELSE {})
        |-> IF k = "$gte" THEN min_price ELSE max_price]

regex_filter(text) == [regex |-> re_escape(text.v), options |-> "i"]

\* match_keys, with "if value:" in place of "if value is not None:"
match_keys_truthy(min_price, max_price, bedrooms, bathrooms, property_type, location_keywords, mls_genuine) ==
    {k \in {"property_details.listed_price", "property_details.bedrooms",
            "property_details.bathrooms", "property_details.property_type",
            "property_details.address", "property_details.mls_is_genuine"} :
        CASE k = "property_details.listed_price" -> Truthy(min_price) \/ Truthy(max_price)
          [] k = "property_details.bedrooms" -> Truthy(bedrooms)
          [] k = "property_details.bathrooms" -> Truthy(bathrooms)
          [] k = "property_details.property_type" -> Truthy(property_type)
          [] k = "property_details.address" -> Truthy(location_keywords)
          [] k = "property_details.mls_is_genuine" -> Truthy(mls_genuine)}

\* the keys build_match_conditions sets, lines 55-87
match_keys(min_price, max_price, bedrooms, bathrooms, property_type, location_keywords, mls_genuine) ==
    {k \in {"property_details.listed_price", "property_details.bedrooms",
            "property_details.bathrooms", "property_details.property_type",
            "property_details.address", "property_details.mls_is_genuine"} :
        CASE k = "property_details.listed_price" -> min_price # None \/ max_price # None
          [] k = "property_details.bedrooms" -> bedrooms # None
          [] k = "property_details.bathrooms" -> bathrooms # None
          [] k = "property_details.property_type" -> property_type # None
          [] k = "property_details.address" -> location_keywords # None
          [] k = "property_details.mls_is_genuine" -> mls_genuine # None}

\* build_match_conditions: re.escape raises TypeError on a value that is not text
build_match_conditions(min_price, max_price, bedrooms, bathrooms, property_type, location_keywords, mls_genuine) ==
    IF \/ property_type.t \notin {"none", "str"}
       \/ location_keywords.t \notin {"none", "str"}
    THEN Raise("TypeError: expected str")
    ELSE Return(
        [k \in match_keys(min_price, max_price, bedrooms, bathrooms, property_type,
                          location_keywords, mls_genuine) |->
            CASE k = "property_details.listed_price" ->
                     Dict(price_filter(min_price, max_price))
              [] k = "property_details.bedrooms" -> bedrooms
              [] k = "property_details.bathrooms" -> bathrooms
              [] k = "property_details.property_type" -> Dict(regex_filter(property_type))
              [] k = "property_details.address" -> Dict(regex_filter(location_keywords))
              [] k = "property_details.mls_is_genuine" -> mls_genuine])

ProjectedFields ==
    {"_id", "property_url", "property_details.address",
     "property_details.listed_price", "property_details.currency",
     "property_details.bedrooms", "property_details.bathrooms",
     "property_details.property_type", "property_details.mls_description",
     "property_details.mls_number", "property_details.mls_is_genuine",
     "processing_info.images_analyzed", "processing_info.status",
     "ai_analysis_raw", "search_score"}

\* build_search_pipeline, with numCandidates not capped at 100
build_search_pipeline_uncapped(vector, match_conditions, limit, vector_search_index) ==
    IF limit.t # "num" THEN Raise("TypeError: unsupported operand")
    ELSE Return(
        << [stage |-> "$vectorSearch", index |-> vector_search_index,
            path |-> "embedding", queryVector |-> vector,
            numCandidates |-> limit.v * 10, limit |-> limit.v * 5],
           [stage |-> "$addFields", field |-> "search_score"] >>
        \o (IF DOMAIN match_conditions # {}
            THEN << [stage |-> "$match", conditions |-> match_conditions] >>
            ELSE << >>)
        \o << [stage |-> "$project", fields |-> ProjectedFields],
              [stage |-> "$sort", field |-> "search_score", order |-> -1],
              [stage |-> "$limit", n |-> limit.v] >>)

\* build_search_pipeline, with the $match stage appended also when empty
build_search_pipeline_always_matching(vector, match_conditions, limit, vector_search_index) ==
    IF limit.t # "num" THEN Raise("TypeError: unsupported operand")
    ELSE Return(
        << [stage |-> "$vectorSearch", index |-> vector_search_index,
            path |-> "embedding", queryVector |-> vector,
            numCandidates |-> Min(100, limit.v * 10), limit |-> limit.v * 5],
           [stage |-> "$addFields", field |-> "search_score"],
           [stage |-> "$match", conditions |-> match_conditions],
           [stage |-> "$project", fields |-> ProjectedFields],
           [stage |-> "$sort", field |-> "search_score", order |-> -1],
           [stage |-> "$limit", n |-> limit.v] >>)

\* build_search_pipeline: limit * 10 raises TypeError when limit is not a number
build_search_pipeline(vector, match_conditions, limit, vector_search_index) ==
    IF limit.t # "num" THEN Raise("TypeError: unsupported operand")
    ELSE Return(
        << [stage |-> "$vectorSearch", index |-> vector_search_index,
            path |-> "embedding", queryVector |-> vector,
            numCandidates |-> Min(100, limit.v * 10), limit |-> limit.v * 5],
           [stage |-> "$addFields", field |-> "search_score"] >>
        \o (IF DOMAIN match_conditions # {}
            THEN << [stage |-> "$match", conditions |-> match_conditions] >>
            ELSE << >>)
        \o << [stage |-> "$project", fields |-> ProjectedFields],
              [stage |-> "$sort", field |-> "search_score", order |-> -1],
              [stage |-> "$limit", n |-> limit.v] >>)


\* round(x, 4) on a score kept in units of 0.00001, ties to the even digit
round4(n) ==
    LET q == n \div 10
        r == n % 10
    IN  IF r < 5 THEN q * 10
        ELSE IF r > 5 THEN (q + 1) * 10
        ELSE IF q % 2 = 0 THEN q * 10 ELSE (q + 1) * 10

\* str(result.get("_id", ""))
property_id_of(result) == Get(result, "_id", "")

placeholder_urls(property_id) ==
    << <<"https://images.realtor.com/property/", property_id, "/main.jpg">>,
       <<"https://images.realtor.com/property/", property_id, "/interior.jpg">>,
       <<"https://images.realtor.com/property/", property_id, "/exterior.jpg">> >>

\* image_urls_of, without the slice of line 176
image_urls_of_unsliced(result, processing_info) ==
    LET images_analyzed == Get(processing_info, "images_analyzed", List(<<>>))
    IN  IF Truthy(images_analyzed) /\ images_analyzed.t = "list"
        THEN images_analyzed.v
        ELSE placeholder_urls(property_id_of(result))

\* lines 172-184: the first three analyzed images, else three placeholders
image_urls_of(result, processing_info) ==
    LET images_analyzed == Get(processing_info, "images_analyzed", List(<<>>))
    IN  IF Truthy(images_analyzed) /\ images_analyzed.t = "list"
        THEN Prefix(images_analyzed.v, IMAGES_SHOWN)
        ELSE placeholder_urls(property_id_of(result))

\* description_of, without the slice of line 203
description_of_unsliced(property_details) ==
    LET mls_description == Get(property_details, "mls_description", Str(<<>>))
    IN  IF Truthy(mls_description)
        THEN Str(mls_description.v \o <<".", ".", ".">>)
        ELSE Str(<<>>)

\* lines 202-206
description_of(property_details) ==
    LET mls_description == Get(property_details, "mls_description", Str(<<>>))
    IN  IF Truthy(mls_description)
        THEN Str(Prefix(mls_description.v, DESCRIPTION_CHARS) \o <<".", ".", ".">>)
        ELSE Str(<<>>)

\* the body of the loop of format_search_results raises
\*   AttributeError when a sub-document is not a dict (None.get),
\*   TypeError when the score is not a number (round) or the description is
\*   a truthy value that is not text (slice, +)
format_raises(result) ==
    LET property_details == Get(result, "property_details", Dict(EmptyDict))
        processing_info == Get(result, "processing_info", Dict(EmptyDict))
    IN  \/ processing_info.t # "dict"
        \/ property_details.t # "dict"
        \/ Get(result, "search_score", Num(0)).t # "num"
        \/ LET d == Get(property_details.v, "mls_description", Str(<<>>))
           IN  Truthy(d) /\ d.t # "str"

format_property(result) ==
    LET search_score == Get(result, "search_score", Num(0))
        property_details == Get(result, "property_details", Dict(EmptyDict)).v
        processing_info == Get(result, "processing_info", Dict(EmptyDict)).v
        image_urls == image_urls_of(result, processing_info)
    IN  [property_id |-> property_id_of(result),
         url |-> Get(result, "property_url", ""),
         image_urls |-> image_urls,
         primary_image |-> IF image_urls # <<>> THEN image_urls[1] ELSE <<>>,
         address |-> Get(property_details, "address", Str("N/A")),
         price |-> Get(property_details, "listed_price", Str("N/A")),
         currency |-> Get(property_details, "currency", Str("CAD")),
         bedrooms |-> Get(property_details, "bedrooms", Str("N/A")),
         bathrooms |-> Get(property_details, "bathrooms", Str("N/A")),
         property_type |-> Get(property_details, "property_type", Str("N/A")),
         mls_number |-> Get(property_details, "mls_number", Str("N/A")),
         mls_genuine |-> Get(property_details, "mls_is_genuine", Str("N/A")),
         search_score |-> round4(search_score.v),
         status |-> Get(processing_info, "status", Str("N/A")),
         description |-> description_of(property_details)]

\* format_search_results: the records of the matches in order, or the
\* exception of the first match that cannot be formatted
RECURSIVE format_search_results(_)
format_search_results(raw) ==
    IF raw = <<>> THEN Return(<<>>)
    ELSE IF format_raises(Head(raw)) THEN Raise("TypeError or AttributeError in formatting")
    ELSE LET rest == format_search_results(Tail(raw))
         IN  IF rest.ok THEN Return(<<format_property(Head(raw))>> \o rest.v) ELSE rest

\* PropertyDatabase.__init__, lines 21-24
PropertyDatabase ==
    [connection_string |-> "MONGODB_CONNECTION_STRING", db_name |-> "real_estate",
     collection_name |-> "properties"]

\* format_search_results_call, with the identifier taken by result.pop("_id")
format_search_results_call_popping(self, raw) ==
    [self |-> self,
     results |-> [i \in DOMAIN raw |-> [k \in DOMAIN raw[i] \ {"_id"} |-> raw[i][k]]],
     returned |-> format_search_results(raw)]

\* self.format_search_results(results) as a call on objects: what it leaves in
\* self and in the list it was given, and what it returns.  Lines 162-210
\* read no attribute of self, assign none, and only read the raw matches
\* (images_analyzed[:3] is a copy).
format_search_results_call(self, raw) ==
    [self |-> self, results |-> raw, returned |-> format_search_results(raw)]


----------------------------------------------------------------------------
(* src/src/tools/property_search.py, helpers *)

\* _create_error_result, with full_traceback never stored
_create_error_result_without_traceback(error_msg, log, failure_point, text_query, full_traceback) ==
    [k \in {"error", "debug_log", "failure_point", "query"} |->
        CASE k = "error" -> Str(error_msg)
          [] k = "debug_log" -> List(log)
          [] k = "failure_point" -> Str(failure_point)
          [] k = "query" -> text_query]

\* _create_error_result, with the failure_point left out of the dict
_create_error_result_untagged(error_msg, log, failure_point, text_query, full_traceback) ==
    [k \in {"error", "debug_log", "query"}
           \cup (IF Truthy(full_traceback) THEN {"full_traceback"} ELSE {}) |->
        CASE k = "error" -> Str(error_msg)
          [] k = "debug_log" -> List(log)
          [] k = "query" -> text_query
          [] k = "full_traceback" -> full_traceback]

\* _create_error_result: full_traceback is stored only when it is truthy
_create_error_result(error_msg, log, failure_point, text_query, full_traceback) ==
    [k \in {"error", "debug_log", "failure_point", "query"}
           \cup (IF Truthy(full_traceback) THEN {"full_traceback"} ELSE {}) |->
        CASE k = "error" -> Str(error_msg)
          [] k = "debug_log" -> List(log)
          [] k = "failure_point" -> Str(failure_point)
          [] k = "query" -> text_query
          [] k = "full_traceback" -> full_traceback]

\* [prop["search_score"] for prop in formatted_results]
\* similarity_scores, taking the score of the best record only
similarity_scores_of_best(formatted) ==
    [i \in 1..(IF formatted = <<>> THEN 0 ELSE 1) |-> formatted[i].search_score]

similarity_scores(formatted) == [i \in 1..Len(formatted) |-> formatted[i].search_score]

\* the search_result dict of lines 146-167 (execution_time_seconds, a clock
\* reading, is left out)
search_result_of(a, vector, raw, formatted, log) ==
    [k \in {"search_completed", "search_type", "query", "embedding_dimensions",
            "filters_applied", "results_found", "top_similarity_scores",
            "properties", "search_method", "debug_log", "note"} |->
        CASE k = "search_completed" -> Bool(TRUE)
          [] k = "search_type" -> Str("hybrid_vector_traditional")
          [] k = "query" -> a.text_query
          [] k = "embedding_dimensions" -> Num(Len(vector))
          [] k = "filters_applied" ->
                 Dict([min_price |-> a.min_price, max_price |-> a.max_price,
                       bedrooms |-> a.bedrooms, bathrooms |-> a.bathrooms,
                       property_type |-> a.property_type,
                       location_keywords |-> a.location_keywords,
                       mls_genuine |-> a.mls_genuine])
          [] k = "results_found" -> Num(Len(raw))
          [] k = "top_similarity_scores" -> List(similarity_scores(formatted))
          [] k = "properties" -> List(formatted)
          [] k = "search_method" -> Str("MongoDB vector search + traditional filters")
          [] k = "debug_log" -> List(log)
          [] k = "note" ->
                 Str("Hybrid search combining semantic similarity with structured filters")]

----------------------------------------------------------------------------
(* src/src/tools/rtvi_messaging.py *)

\* lines 38-75: the property_search_results message (timestamp and search_id,
\* a clock reading and a fresh uuid, are left out)
results_message(search_data, text_query) ==
    LET props == search_data["properties"].v
    IN  [type |-> "property_search_results",
         query |-> text_query,
         summary |-> [total_found |-> Get(search_data, "results_found", Num(0)),
                      showing |-> Len(props),
                      search_type |-> Get(search_data, "search_type", Str("hybrid"))],
         filters_applied |-> Get(search_data, "filters_applied", Dict(EmptyDict)),
         properties |->
            [i \in 1..Len(props) |->
                [id |-> props[i].property_id,
                 url |-> props[i].url,
                 images |-> [primary |-> props[i].primary_image,
                             all |-> props[i].image_urls],
                 details |-> [address |-> props[i].address,
                              price |-> props[i].price,
                              currency |-> props[i].currency,
                              bedrooms |-> props[i].bedrooms,
                              bathrooms |-> props[i].bathrooms,
                              type |-> props[i].property_type,
                              description |-> props[i].description],
                 metadata |-> [search_score |-> props[i].search_score,
                               mls_genuine |-> props[i].mls_genuine,
                               status |-> props[i].status]]]]

\* lines 116-123: the property_search_error message
error_message(search_data, text_query) ==
    [type |-> "property_search_error",
     query |-> text_query,
     error |-> Get(search_data, "error", Str(<<"No properties found">>)),
     failure_point |-> Get(search_data, "failure_point", Str("unknown"))]

\* sends_results, without the test of the property list
sends_results_when_completed(search_data) ==
    Truthy(Get(search_data, "search_completed", None))

\* line 36: the branch send_property_search_results takes
sends_results(search_data) ==
    /\ Truthy(Get(search_data, "search_completed", None))
    /\ Truthy(Get(search_data, "properties", None))

\* timeout_of, with the two timeouts exchanged
timeout_of_exchanged(message) ==
    IF message.type = "property_search_results"
    THEN RTVI_ERROR_TIMEOUT ELSE RTVI_MESSAGE_TIMEOUT

\* the timeout of asyncio.wait_for around push_frame, lines 81-84 and 128-131
timeout_of(message) ==
    IF message.type = "property_search_results"
    THEN RTVI_MESSAGE_TIMEOUT ELSE RTVI_ERROR_TIMEOUT

NoTask == [state |-> "none"]

\* what schedule_rtvi_message logs: lines 155, 163 and 165
schedule_rtvi_log(event_loop, rtvi_instance) ==
    IF ~Truthy(event_loop) \/ ~Truthy(rtvi_instance)
    THEN "WARNING Event loop or RTVI instance not available"
    ELSE IF event_loop.v = "closed" THEN "ERROR Error scheduling RTVI message"
    ELSE "INFO RTVI message scheduled"

\* schedule_rtvi_message, with line 154 testing the event loop only
schedule_rtvi_message_without_session_test(event_loop, rtvi_instance, search_data, text_query) ==
    IF ~Truthy(event_loop) THEN NoTask
    ELSE IF event_loop.v = "closed" THEN NoTask
    ELSE [state |-> "scheduled", rtvi_instance |-> rtvi_instance,
          search_data |-> search_data, text_query |-> text_query]

\* schedule_rtvi_message: the coroutine handed to the loop, if any.  A missing
\* handle is a logged no-op; run_coroutine_threadsafe raises RuntimeError on a
\* closed loop, which is caught and logged.  future.result() is never called.
schedule_rtvi_message(event_loop, rtvi_instance, search_data, text_query) ==
    IF ~Truthy(event_loop) \/ ~Truthy(rtvi_instance) THEN NoTask
    ELSE IF event_loop.v = "closed" THEN NoTask
    ELSE [state |-> "scheduled", rtvi_instance |-> rtvi_instance,
          search_data |-> search_data, text_query |-> text_query]


----------------------------------------------------------------------------
(* Inputs of the model *)

QueryChars == {" ", "a"}

RECURSIVE SeqsUpTo(_, _)
SeqsUpTo(S, n) ==
    IF n = 0 THEN {<<>>}
    ELSE LET shorter == SeqsUpTo(S, n - 1)
         IN  shorter \cup {Append(q, c) : q \in shorter, c \in S}

Queries == {None} \cup {Str(q) : q \in SeqsUpTo(QueryChars, MaxQueryLen)}

NoFilters ==
    [min_price |-> None, max_price |-> None, bedrooms |-> None, bathrooms |-> None,
     property_type |-> None, location_keywords |-> None, mls_genuine |-> None,
     limit |-> Num(DEFAULT_SEARCH_LIMIT), vector_search_index |-> "vector_index"]

\* the filter arguments tried: none; the Toronto request of the specification;
\* falsy values; a property type that is not text; a limit that is not a number
FilterInputs ==
    { NoFilters,
      [NoFilters EXCEPT !.max_price = Num(500000), !.bedrooms = Str("3"),
                        !.property_type = Str(<<"h", "o", "u", "s", "e">>),
                        !.location_keywords = Str(<<"T", "o", "r", "o", "n", "t", "o">>),
                        !.limit = Num(5)],
      [NoFilters EXCEPT !.min_price = Num(0), !.bathrooms = Str("2"),
                        !.property_type = Str(<<"a", ".">>),
                        !.mls_genuine = Bool(FALSE), !.limit = Num(1)],
      [NoFilters EXCEPT !.property_type = Num(7)],
      [NoFilters EXCEPT !.limit = None] }

EventLoops == {None, [t |-> "loop", v |-> "running"], [t |-> "loop", v |-> "closed"]}
RtviInstances == {None, [t |-> "rtvi"]}

Invocations ==
    { [text_query |-> q, event_loop |-> l, rtvi_instance |-> r] @@ f :
        q \in Queries, f \in FilterInputs, l \in EventLoops, r \in RtviInstances }

\* what the embedding service may answer
Embeddings == {<<1>>, <<1, 0>>}
EmbeddingErrors == {"Connection error."}

\* what the store may answer
StoreErrors == {"ServerSelectionTimeoutError", "OperationFailure"}

GoodMatch ==
    [k \in {"_id", "property_url", "search_score", "property_details", "processing_info"} |->
        CASE k = "_id" -> "p1"
          [] k = "property_url" -> "https://realtor.example/p1"
          [] k = "search_score" -> Num(87655)
          [] k = "property_details" ->
                 Dict([address |-> Str("1 Main St"), listed_price |-> Num(450000),
                       bedrooms |-> Str("3"), mls_description |-> Str(<<"d", "e">>)])
          [] k = "processing_info" ->
                 Dict([images_analyzed |-> List(<< <<"i1">>, <<"i2">>, <<"i3">>, <<"i4">> >>),
                       status |-> Str("done")])]

BareMatch == [k \in {"_id"} |-> "p2"]

BrokenMatch ==
    [k \in {"_id", "property_details", "search_score"} |->
        CASE k = "_id" -> "p3"
          [] k = "property_details" -> None
          [] k = "search_score" -> Num(5)]

RawMatches == {GoodMatch, BareMatch, BrokenMatch}

\* the store returns at most the final limit of the pipeline
StoreResults(plan) ==
    {r \in SeqsUpTo(RawMatches, MaxResults) : Len(r) <= plan[Len(plan)].n}


----------------------------------------------------------------------------
(* The state machine *)

NoFailure == [stage |-> "", exc |-> ""]

\* ---------------------------------------------------------------------
\* The bot and the web server around the search
\* ---------------------------------------------------------------------

\* no second invocation of execute_hybrid_search
NoFrame ==
    [pc |-> "idle", args |-> None, debug_log |-> <<>>, embedding_vector |-> <<>>,
     pipeline |-> <<>>, results |-> <<>>, outcome |-> None, raised |-> FALSE,
     failed_in |-> NoFailure, calls |-> <<>>, embedding_request |-> None,
     format_calls |-> <<>>, task |-> NoTask, sent |-> <<>>, pushed |-> <<>>,
     rtvi_log |-> <<>>]
NoOtherInvocation == other = NoFrame

\* the tool of property_search.py and the closure of bot.py, lines 80-86,
\* made by the handler invocation h
execute_hybrid_search_tool == [t |-> "function", __name__ |-> "execute_hybrid_search"]
execute_search_with_context(h) ==
    [t |-> "function", __name__ |-> "execute_search_with_context", handler |-> h]

Handlers == 1..MaxHandlers
NoHandler == [pc |-> "idle", original_tool |-> None]

\* RealEstateBot.__init__ and _initialize_strands_agent, lines 43-62
RealEstateBot ==
    /\ tools = <<execute_hybrid_search_tool>>
    /\ handlers = [h \in Handlers |-> NoHandler]
    /\ tool_calls = <<>>

\* the module-level state of app.py, lines 50-52, without a sample room
WebServer ==
    /\ DAILY_SAMPLE_ROOM_URL = None
    /\ bot_jobs = EmptyDict
    /\ spawned = <<>>
    /\ cancel_calls = <<>>
    /\ lifespan = [state |-> "serving"]

Init ==
    /\ NoOtherInvocation
    /\ RealEstateBot
    /\ WebServer
    /\ OPENAI_API_KEY \in BOOLEAN
    /\ db_client = PropertyDatabase
    /\ time_readings = [n \in 1..LOG_CALLS |-> 0]
    /\ embedding_request = None
    /\ format_calls = <<>>
    /\ pc = "idle"
    /\ args = None
    /\ debug_log = <<>>
    /\ embedding_vector = <<>>
    /\ pipeline = <<>>
    /\ results = <<>>
    /\ outcome = None
    /\ raised = FALSE
    /\ failed_in = NoFailure
    /\ calls = <<>>
    /\ open_clients = 0
    /\ task = NoTask
    /\ sent = <<>>
    /\ pushed = <<>>
    /\ rtvi_log = <<>>

\* log_debug: one entry appended to debug_log
log_debug(log, message) ==
    Append(log, [timestamp |-> time_readings[Len(log) + 1], message |-> message])

\* A call of execute_hybrid_search, lines 63-75.  The worker makes one call at
\* a time.
Invoke(a) ==
    /\ pc = "idle"
    /\ open_clients <= MaxLeaked
    /\ args' = a
    /\ debug_log' = log_debug(<<>>, "=== HYBRID SEARCH DEBUG SESSION STARTED ===")
    /\ embedding_vector' = <<>>
    /\ pipeline' = <<>>
    /\ results' = <<>>
    /\ outcome' = None
    /\ raised' = FALSE
    /\ failed_in' = NoFailure
    /\ calls' = <<>>
    /\ task' = NoTask
    /\ sent' = <<>>
    /\ pushed' = <<>>
    /\ rtvi_log' = <<>>
    /\ embedding_request' = None
    /\ format_calls' = <<>>
    /\ pc' = "validating"
    /\ UNCHANGED <<other, botVars, webVars,
                   OPENAI_API_KEY, db_client, time_readings, open_clients>>


\* Fail, with the exception propagating to the caller instead of being encoded
FailByRaising(stage, exc, error_msg, failure_point, full_traceback) ==
    /\ outcome' = None
    /\ raised' = TRUE
    /\ failed_in' = [stage |-> stage, exc |-> exc]
    /\ pc' = "done"

\* Fail, with the error result returned without the notifying step
FailWithoutNotifying(stage, exc, error_msg, failure_point, full_traceback) ==
    /\ outcome' = _create_error_result(error_msg, debug_log', failure_point,
                                       args.text_query, full_traceback)
    /\ raised' = raised
    /\ failed_in' = [stage |-> stage, exc |-> exc]
    /\ pc' = "returning"

\* the handlers of lines 80-87, 93-101, 129-137 and 174-183 up to the call of
\* _schedule_error_message
Fail(stage, exc, error_msg, failure_point, full_traceback) ==
    /\ outcome' = _create_error_result(error_msg, debug_log', failure_point,
                                       args.text_query, full_traceback)
    /\ raised' = raised
    /\ failed_in' = [stage |-> stage, exc |-> exc]
    /\ pc' = "schedule_error"

\* invalid_query, without the strip()
invalid_query_unstripped(text_query) == ~Truthy(text_query)

\* line 79: not text_query or not text_query.strip()
invalid_query(text_query) ==
    ~Truthy(text_query) \/ ~Truthy(Str(Strip(text_query.v)))

\* STEP 1, lines 79-87
Validate ==
    /\ pc = "validating"
    /\ IF invalid_query(args.text_query)
       THEN /\ debug_log' = debug_log
            /\ Fail("validation", "", <<"Text query is empty or None">>,
                    "input_validation", None)
       ELSE /\ pc' = "embedding"
            /\ UNCHANGED <<debug_log, outcome, raised, failed_in>>
    /\ UNCHANGED <<other, botVars, webVars,
                   OPENAI_API_KEY, db_client, time_readings, embedding_request, format_calls,
                   args, embedding_vector, pipeline, results, calls,
                   open_clients, task, sent, pushed, rtvi_log>>

\* embedding_input, with the query passed on as the caller gave it
embedding_input_unstripped(text_query) ==
    IF OPENAI_API_KEY THEN text_query ELSE None

\* line 91 and lines 188-194: the text handed to embeddings.create, none when
\* the missing key makes _generate_embedding raise before the request
embedding_input(text_query) ==
    IF OPENAI_API_KEY THEN Str(Strip(text_query.v)) ELSE None

\* _generate_embedding, lines 186-195: what the call may do
embedding_answers ==
    IF ~OPENAI_API_KEY THEN {Raise("OPENAI_API_KEY not found")}
    ELSE {Raise(e) : e \in EmbeddingErrors} \cup {Return(v) : v \in Embeddings}

\* Embed, with the embedding error logged and the search carried on
EmbedSwallowsError ==
    /\ pc = "embedding"
    /\ calls' = Append(calls, "_generate_embedding")
    /\ \E answer \in embedding_answers :
          /\ embedding_vector' = IF answer.ok THEN answer.v ELSE <<>>
          /\ failed_in' = IF answer.ok THEN failed_in
                          ELSE [stage |-> "embedding", exc |-> answer.exc]
          /\ debug_log' = log_debug(debug_log, "Embedding generated")
          /\ pc' = "composing"
          /\ UNCHANGED <<outcome, raised>>
    /\ embedding_request' = embedding_input(args.text_query)
    /\ UNCHANGED <<other, botVars, webVars,
                   OPENAI_API_KEY, db_client, time_readings, format_calls,
                   args, pipeline, results, open_clients, task, sent, pushed, rtvi_log>>

\* STEP 2, lines 90-101
Embed ==
    /\ pc = "embedding"
    /\ calls' = Append(calls, "_generate_embedding")
    /\ \E answer \in embedding_answers :
          IF answer.ok
          THEN /\ embedding_vector' = answer.v
               /\ debug_log' = log_debug(debug_log, "Embedding generated")
               /\ pc' = "composing"
               /\ UNCHANGED <<outcome, raised, failed_in>>
          ELSE /\ debug_log' = debug_log
               /\ Fail("embedding", answer.exc, <<"OpenAI API error: ", answer.exc>>,
                       "openai_api_call", None)
               /\ UNCHANGED embedding_vector
    /\ embedding_request' = embedding_input(args.text_query)
    /\ UNCHANGED <<other, botVars, webVars,
                   OPENAI_API_KEY, db_client, time_readings, format_calls,
                   args, pipeline, results, open_clients, task, sent, pushed, rtvi_log>>

\* Compose, with the two build calls outside the inner try of line 104
ComposeOutsideTry ==
    /\ pc = "composing"
    /\ LET match_conditions ==
               build_match_conditions(args.min_price, args.max_price, args.bedrooms,
                                      args.bathrooms, args.property_type,
                                      args.location_keywords, args.mls_genuine)
           plan == build_search_pipeline(embedding_vector, match_conditions.v,
                                         args.limit, args.vector_search_index)
       IN  IF ~match_conditions.ok
           THEN /\ calls' = Append(calls, "build_match_conditions")
                /\ debug_log' = debug_log
                /\ Fail("store", match_conditions.exc,
                        <<"Unexpected error in hybrid search: ", match_conditions.exc>>,
                        "unexpected_error", Str(<<"Traceback">>))
                /\ UNCHANGED pipeline
           ELSE /\ calls' = calls \o <<"build_match_conditions", "build_search_pipeline">>
                /\ debug_log' = log_debug(debug_log, "Match conditions")
                /\ IF ~plan.ok
                   THEN /\ Fail("store", plan.exc,
                                <<"Unexpected error in hybrid search: ", plan.exc>>,
                                "unexpected_error", Str(<<"Traceback">>))
                        /\ UNCHANGED pipeline
                   ELSE /\ pipeline' = plan.v
                        /\ pc' = "querying"
                        /\ UNCHANGED <<outcome, raised, failed_in>>
    /\ UNCHANGED <<other, botVars, webVars,
                   OPENAI_API_KEY, db_client, time_readings, embedding_request, format_calls,
                   args, embedding_vector, results, open_clients,
                   task, sent, pushed, rtvi_log>>

\* STEP 3, lines 105-124: build_match_conditions and build_search_pipeline
Compose ==
    /\ pc = "composing"
    /\ LET match_conditions ==
               build_match_conditions(args.min_price, args.max_price, args.bedrooms,
                                      args.bathrooms, args.property_type,
                                      args.location_keywords, args.mls_genuine)
       IN  IF ~match_conditions.ok
           THEN /\ calls' = Append(calls, "build_match_conditions")
                /\ debug_log' = debug_log
                /\ Fail("store", match_conditions.exc,
                        <<"MongoDB error: ", match_conditions.exc>>,
                        "mongodb_operation", None)
                /\ UNCHANGED pipeline
           ELSE LET plan == build_search_pipeline(embedding_vector, match_conditions.v,
                                                  args.limit, args.vector_search_index)
                IN  /\ calls' = calls \o <<"build_match_conditions", "build_search_pipeline">>
                    /\ IF ~plan.ok
                       THEN /\ debug_log' = log_debug(debug_log, "Match conditions")
                            /\ Fail("store", plan.exc, <<"MongoDB error: ", plan.exc>>,
                                    "mongodb_operation", None)
                            /\ UNCHANGED pipeline
                       ELSE /\ debug_log' = log_debug(log_debug(debug_log, "Match conditions"),
                                                      "Pipeline stages")
                            /\ pipeline' = plan.v
                            /\ pc' = "querying"
                            /\ UNCHANGED <<outcome, raised, failed_in>>
    /\ UNCHANGED <<other, botVars, webVars,
                   OPENAI_API_KEY, db_client, time_readings, embedding_request, format_calls,
                   args, embedding_vector, results, open_clients,
                   task, sent, pushed, rtvi_log>>

\* what the driver does under execute_search_query: get_client raises,
\* aggregate raises, or aggregate yields the matches
store_behaviours(plan) ==
    {[at |-> where, exc |-> e] : where \in {"get_client", "aggregate"}, e \in StoreErrors}
    \cup {[at |-> "return", docs |-> r] : r \in StoreResults(plan)}

\* execute_search_query, with the except clause returning no matches
execute_search_query_swallowing(behaviour) ==
    CASE behaviour.at = "get_client" -> [answer |-> Return(<<>>), left_open |-> 0]
      [] behaviour.at = "aggregate"  -> [answer |-> Return(<<>>), left_open |-> 1]
      [] behaviour.at = "return"     -> [answer |-> Return(behaviour.docs), left_open |-> 0]

\* execute_search_query, lines 148-160: an exception of get_client leaves no
\* client; an exception of aggregate skips close() on line 154; both are
\* logged and re-raised; otherwise the matches are returned after close()
execute_search_query(behaviour) ==
    CASE behaviour.at = "get_client" -> [answer |-> Raise(behaviour.exc), left_open |-> 0]
      [] behaviour.at = "aggregate"  -> [answer |-> Raise(behaviour.exc), left_open |-> 1]
      [] behaviour.at = "return"     -> [answer |-> Return(behaviour.docs), left_open |-> 0]

\* the outcomes of the call on line 126
store_answers(plan) == {execute_search_query(b) : b \in store_behaviours(plan)}

\* Query, with the handler of lines 129-137 not returning
QueryWithoutReturn ==
    /\ pc = "querying"
    /\ calls' = Append(calls, "execute_search_query")
    /\ \E s \in store_answers(pipeline) :
          /\ open_clients' = open_clients + s.left_open
          /\ results' = IF s.answer.ok THEN s.answer.v ELSE <<>>
          /\ failed_in' = IF s.answer.ok THEN failed_in
                          ELSE [stage |-> "store", exc |-> s.answer.exc]
          /\ debug_log' = log_debug(debug_log, "Found results")
          /\ pc' = "formatting"
          /\ UNCHANGED <<outcome, raised>>
    /\ UNCHANGED <<other, botVars, webVars,
                   OPENAI_API_KEY, db_client, time_readings, embedding_request, format_calls,
                   args, embedding_vector, pipeline, task, sent, pushed, rtvi_log>>

\* STEP 3, lines 126-137
Query ==
    /\ pc = "querying"
    /\ calls' = Append(calls, "execute_search_query")
    /\ \E s \in store_answers(pipeline) :
          /\ open_clients' = open_clients + s.left_open
          /\ IF s.answer.ok
             THEN /\ results' = s.answer.v
                  /\ debug_log' = log_debug(debug_log, "Found results")
                  /\ pc' = "formatting"
                  /\ UNCHANGED <<outcome, raised, failed_in>>
             ELSE /\ debug_log' = debug_log
                  /\ Fail("store", s.answer.exc, <<"MongoDB error: ", s.answer.exc>>,
                          "mongodb_operation", None)
                  /\ UNCHANGED results
    /\ UNCHANGED <<other, botVars, webVars,
                   OPENAI_API_KEY, db_client, time_readings, embedding_request, format_calls,
                   args, embedding_vector, pipeline, task, sent, pushed, rtvi_log>>

\* STEP 4, lines 140-167, and the handler of lines 174-181
Format ==
    /\ pc = "formatting"
    /\ calls' = Append(calls, "format_search_results")
    /\ \E call \in {format_search_results_call(db_client, results)} :
       LET formatted_results == call.returned
       IN  /\ db_client' = call.self
           /\ results' = call.results
           /\ format_calls' = Append(format_calls, [results |-> results,
                                              results_after |-> call.results,
                                              returned |-> call.returned])
           /\ IF formatted_results.ok
              THEN /\ debug_log' = log_debug(debug_log, "=== HYBRID SEARCH COMPLETED SUCCESSFULLY ===")
                   /\ outcome' = search_result_of(args, embedding_vector, results',
                                                  formatted_results.v, debug_log')
                   /\ pc' = "schedule_success"
                   /\ UNCHANGED <<raised, failed_in>>
              ELSE /\ debug_log' = debug_log
                   /\ Fail("formatting", formatted_results.exc,
                           <<"Unexpected error in hybrid search: ", formatted_results.exc>>,
                           "unexpected_error",
                           Str(<<"Traceback (most recent call last): ", formatted_results.exc>>))
    /\ UNCHANGED <<other, botVars, webVars,
                   OPENAI_API_KEY, time_readings, embedding_request,
                   args, embedding_vector, pipeline,
                   open_clients, task, sent, pushed, rtvi_log>>

\* ScheduleSuccess, with the scheduling error of a closed loop reaching the
\* handler of lines 174-183
ScheduleSuccessUncaught ==
    /\ pc = "schedule_success"
    /\ task' = schedule_rtvi_message(args.event_loop, args.rtvi_instance, outcome,
                                     args.text_query)
    /\ rtvi_log' = Append(rtvi_log, schedule_rtvi_log(args.event_loop, args.rtvi_instance))
    /\ IF Truthy(args.event_loop) /\ Truthy(args.rtvi_instance)
          /\ args.event_loop.v = "closed"
       THEN /\ outcome' = _create_error_result(
                              <<"Unexpected error in hybrid search: ", "Event loop is closed">>,
                              debug_log, "unexpected_error", args.text_query,
                              Str(<<"Traceback">>))
            /\ calls' = calls \o <<"schedule_rtvi_message", "_schedule_error_message",
                                   "schedule_rtvi_message">>
       ELSE /\ calls' = Append(calls, "schedule_rtvi_message")
            /\ UNCHANGED outcome
    /\ pc' = "returning"
    /\ UNCHANGED <<other, botVars, webVars,
                   OPENAI_API_KEY, db_client, time_readings, embedding_request, format_calls,
                   args, debug_log, embedding_vector, pipeline, results,
                   raised, failed_in, open_clients, sent, pushed>>

\* line 170: schedule_rtvi_message on the success path
\* ScheduleSuccess, with the worker thread awaiting the transmission itself
\* instead of handing the coroutine to the loop
ScheduleSuccessPushing ==
    /\ pc = "schedule_success"
    /\ calls' = Append(calls, "schedule_rtvi_message")
    /\ rtvi_log' = Append(rtvi_log, schedule_rtvi_log(args.event_loop, args.rtvi_instance))
    /\ LET scheduled == schedule_rtvi_message(args.event_loop, args.rtvi_instance, outcome,
                                              args.text_query)
       IN  IF scheduled.state = "scheduled"
           THEN /\ pushed' = Append(pushed, results_message(outcome, args.text_query))
                /\ sent' = Append(sent, results_message(outcome, args.text_query))
                /\ task' = [state |-> "finished", how |-> "sent"]
           ELSE /\ task' = scheduled
                /\ UNCHANGED <<sent, pushed>>
    /\ pc' = "returning"
    /\ UNCHANGED <<other, botVars, webVars,
                   OPENAI_API_KEY, db_client, time_readings, embedding_request, format_calls,
                   args, debug_log, embedding_vector, pipeline, results,
                   outcome, raised, failed_in, open_clients>>

ScheduleSuccess ==
    /\ pc = "schedule_success"
    /\ calls' = Append(calls, "schedule_rtvi_message")
    /\ task' = schedule_rtvi_message(args.event_loop, args.rtvi_instance, outcome,
                                     args.text_query)
    /\ rtvi_log' = Append(rtvi_log, schedule_rtvi_log(args.event_loop, args.rtvi_instance))
    /\ pc' = "returning"
    /\ UNCHANGED <<other, botVars, webVars,
                   OPENAI_API_KEY, db_client, time_readings, embedding_request, format_calls,
                   args, debug_log, embedding_vector, pipeline, results,
                   outcome, raised, failed_in, open_clients, sent, pushed>>

\* _schedule_error_message, lines 219-230
ScheduleError ==
    /\ pc = "schedule_error"
    /\ IF Truthy(args.event_loop) /\ Truthy(args.rtvi_instance)
       THEN /\ calls' = calls \o <<"_schedule_error_message", "schedule_rtvi_message">>
            /\ task' = schedule_rtvi_message(args.event_loop, args.rtvi_instance, outcome,
                                             args.text_query)
            /\ rtvi_log' = Append(rtvi_log,
                                  schedule_rtvi_log(args.event_loop, args.rtvi_instance))
       ELSE /\ calls' = Append(calls, "_schedule_error_message")
            /\ UNCHANGED <<task, rtvi_log>>
    /\ pc' = "returning"
    /\ UNCHANGED <<other, botVars, webVars,
                   OPENAI_API_KEY, db_client, time_readings, embedding_request, format_calls,
                   args, debug_log, embedding_vector, pipeline, results,
                   outcome, raised, failed_in, open_clients, sent, pushed>>

\* ReturnToCaller, after waiting for the coroutine as future.result() would
ReturnAfterDelivery ==
    /\ pc = "returning"
    /\ task.state \in {"none", "finished"}
    /\ pc' = "done"
    /\ UNCHANGED <<other, botVars, webVars,
                   OPENAI_API_KEY, db_client, time_readings, embedding_request, format_calls,
                   args, debug_log, embedding_vector, pipeline, results,
                   outcome, raised, failed_in, calls, open_clients, task, sent, pushed, rtvi_log>>

\* return search_result / return error_result
ReturnToCaller ==
    /\ pc = "returning"
    /\ pc' = "done"
    /\ UNCHANGED <<other, botVars, webVars,
                   OPENAI_API_KEY, db_client, time_readings, embedding_request, format_calls,
                   args, debug_log, embedding_vector, pipeline, results,
                   outcome, raised, failed_in, calls, open_clients, task, sent, pushed, rtvi_log>>


----------------------------------------------------------------------------
(* The session's event loop running the coroutine send_property_search_results *)

\* the keys of a property record that lines 52-70 read with prop[...]
EnvelopeFields ==
    {"property_id", "url", "primary_image", "image_urls", "address", "price",
     "currency", "bedrooms", "bathrooms", "property_type", "description",
     "search_score", "mls_genuine", "status"}

\* building the results message raises KeyError on a record lacking a key
results_message_raises(search_data) ==
    \E i \in DOMAIN search_data["properties"].v :
        ~(EnvelopeFields \subseteq DOMAIN search_data["properties"].v[i])

\* the sender that awaits push_frame for a message
is_results(message) == message.type = "property_search_results"

\* lines 31-84 and 111-131, up to the await of push_frame
CoroutineStart ==
    /\ task.state = "scheduled"
    /\ IF ~Truthy(task.rtvi_instance)
       THEN /\ task' = [state |-> "finished", how |-> "no_rtvi"]
            /\ rtvi_log' = Append(rtvi_log, "WARNING RTVI processor not available")
            /\ UNCHANGED pushed
       ELSE IF sends_results(task.search_data) /\ results_message_raises(task.search_data)
       THEN /\ task' = [state |-> "finished", how |-> "error"]
            /\ rtvi_log' = Append(rtvi_log, "ERROR Error sending RTVI search results")
            /\ UNCHANGED pushed
       ELSE LET message == IF sends_results(task.search_data)
                           THEN results_message(task.search_data, task.text_query)
                           ELSE error_message(task.search_data, task.text_query)
            IN  /\ task' = [state |-> "pushing", elapsed |-> 0, message |-> message]
                /\ pushed' = Append(pushed, message)
                /\ UNCHANGED rtvi_log
    /\ UNCHANGED <<other, botVars, webVars,
                   OPENAI_API_KEY, db_client, time_readings, embedding_request, format_calls,
                   pc, args, debug_log, embedding_vector, pipeline,
                   results, outcome, raised, failed_in, calls, open_clients, sent>>

\* one second passes while push_frame is awaited
Tick ==
    /\ task.state = "pushing"
    /\ task.elapsed < timeout_of(task.message)
    /\ task' = [task EXCEPT !.elapsed = @ + 1]
    /\ UNCHANGED <<other, botVars, webVars,
                   OPENAI_API_KEY, db_client, time_readings, embedding_request, format_calls,
                   pc, args, debug_log, embedding_vector, pipeline,
                   results, outcome, raised, failed_in, calls, open_clients, sent,
                   pushed, rtvi_log>>

\* push_frame completes before the timeout: the session has the frame
PushCompletes ==
    /\ task.state = "pushing"
    /\ task.elapsed < timeout_of(task.message)
    /\ sent' = Append(sent, task.message)
    /\ task' = [state |-> "finished", how |-> "sent"]
    /\ rtvi_log' = Append(rtvi_log, IF is_results(task.message)
                                    THEN "INFO RTVI message sent"
                                    ELSE "INFO RTVI error message sent")
    /\ UNCHANGED <<other, botVars, webVars,
                   OPENAI_API_KEY, db_client, time_readings, embedding_request, format_calls,
                   pc, args, debug_log, embedding_vector, pipeline,
                   results, outcome, raised, failed_in, calls, open_clients, pushed>>

\* PushRaises, with the exception of push_frame leaving the coroutine
PushRaisesUncaught ==
    /\ task.state = "pushing"
    /\ task' = [state |-> "finished", how |-> "unhandled exception"]
    /\ UNCHANGED <<other, botVars, webVars,
                   OPENAI_API_KEY, db_client, time_readings, embedding_request, format_calls,
                   pc, args, debug_log, embedding_vector, pipeline,
                   results, outcome, raised, failed_in, calls, open_clients, sent,
                   pushed, rtvi_log>>

\* push_frame raises: caught and logged on lines 95-96 / 136-137
PushRaises ==
    /\ task.state = "pushing"
    /\ task' = [state |-> "finished", how |-> "error"]
    /\ rtvi_log' = Append(rtvi_log, IF is_results(task.message)
                                    THEN "ERROR Error sending RTVI search results"
                                    ELSE "ERROR Error sending RTVI error message")
    /\ UNCHANGED <<other, botVars, webVars,
                   OPENAI_API_KEY, db_client, time_readings, embedding_request, format_calls,
                   pc, args, debug_log, embedding_vector, pipeline,
                   results, outcome, raised, failed_in, calls, open_clients, sent, pushed>>

\* PushTimesOut, with a timed-out results message followed by an error message
PushTimesOutWithFallback ==
    /\ task.state = "pushing"
    /\ task.elapsed = timeout_of(task.message)
    /\ rtvi_log' = Append(rtvi_log, "WARNING RTVI message send timed out")
    /\ IF is_results(task.message)
       THEN LET message == [type |-> "property_search_error",
                            query |-> task.message.query,
                            error |-> Str(<<"No properties found">>),
                            failure_point |-> Str("unknown")]
            IN  /\ task' = [state |-> "pushing", elapsed |-> 0, message |-> message]
                /\ pushed' = Append(pushed, message)
       ELSE /\ task' = [state |-> "finished", how |-> "timeout", after |-> task.elapsed,
                        type |-> task.message.type]
            /\ UNCHANGED pushed
    /\ UNCHANGED <<other, botVars, webVars,
                   OPENAI_API_KEY, db_client, time_readings, embedding_request, format_calls,
                   pc, args, debug_log, embedding_vector, pipeline,
                   results, outcome, raised, failed_in, calls, open_clients, sent>>

\* asyncio.TimeoutError, lines 88-89 / 133-134: a warning, the frame is dropped
\* PushTimesOut, with push_frame awaited without asyncio.wait_for: no timer
\* ever ends the wait
PushTimesOutNever ==
    /\ task.state = "pushing"
    /\ task.elapsed > timeout_of(task.message)
    /\ task' = [state |-> "finished", how |-> "timeout", after |-> task.elapsed,
                type |-> task.message.type]
    /\ rtvi_log' = Append(rtvi_log, "WARNING RTVI message send timed out")
    /\ UNCHANGED <<other, botVars, webVars,
                   OPENAI_API_KEY, db_client, time_readings, embedding_request, format_calls,
                   pc, args, debug_log, embedding_vector, pipeline,
                   results, outcome, raised, failed_in, calls, open_clients, sent, pushed>>

PushTimesOut ==
    /\ task.state = "pushing"
    /\ task.elapsed = timeout_of(task.message)
    /\ task' = [state |-> "finished", how |-> "timeout", after |-> task.elapsed,
                type |-> task.message.type]
    /\ rtvi_log' = Append(rtvi_log, IF is_results(task.message)
                                    THEN "WARNING RTVI message send timed out"
                                    ELSE "WARNING RTVI error message send timed out")
    /\ UNCHANGED <<other, botVars, webVars,
                   OPENAI_API_KEY, db_client, time_readings, embedding_request, format_calls,
                   pc, args, debug_log, embedding_vector, pipeline,
                   results, outcome, raised, failed_in, calls, open_clients, sent, pushed>>

\* The agent has taken the returned dict and the coroutine has left the loop:
\* nothing of the call remains but the clients it left open.
Release ==
    /\ pc = "done"
    /\ task.state \in {"none", "finished"}
    /\ pc' = "idle"
    /\ args' = None
    /\ debug_log' = <<>>
    /\ embedding_vector' = <<>>
    /\ pipeline' = <<>>
    /\ results' = <<>>
    /\ outcome' = None
    /\ raised' = FALSE
    /\ failed_in' = NoFailure
    /\ calls' = <<>>
    /\ task' = NoTask
    /\ sent' = <<>>
    /\ pushed' = <<>>
    /\ rtvi_log' = <<>>
    /\ embedding_request' = None
    /\ format_calls' = <<>>
    /\ UNCHANGED <<other, botVars, webVars,
                   OPENAI_API_KEY, db_client, time_readings, open_clients>>

Worker ==
    \/ Validate
    \/ Embed
    \/ Compose
    \/ Query
    \/ Format
    \/ ScheduleSuccess
    \/ ScheduleError
    \/ ReturnToCaller

EventLoop ==
    \/ CoroutineStart
    \/ Tick
    \/ PushCompletes
    \/ PushRaises
    \/ PushTimesOut

Next ==
    \/ \E a \in Invocations : Invoke(a)
    \/ Worker
    \/ EventLoop
    \/ Release

Spec == Init /\ [][Next]_vars


\* the worker thread keeps running; nothing is assumed of the event loop
SpecWorker == Spec /\ WF_vars(Worker)

----------------------------------------------------------------------------
(* Vocabulary of the properties *)

IsFailure(o) == {"error", "failure_point"} \subseteq DOMAIN o
IsSuccess(o) == "search_completed" \in DOMAIN o /\ "error" \notin DOMAIN o

Count(seq, x) == Cardinality({i \in DOMAIN seq : seq[i] = x})

Invoked == args # None
Returned == pc = "done"
HandlesSupplied == Truthy(args.event_loop) /\ Truthy(args.rtvi_instance)

\* None, empty, or made of whitespace only
BlankQuery(text_query) ==
    \/ text_query = None
    \/ \A i \in DOMAIN text_query.v : text_query.v[i] \in Whitespace

----------------------------------------------------------------------------
(* Properties *)

\* C1: execute_hybrid_search never raises to its caller: every invocation that
\* ends hands back a Success or a Failure dict, and whenever one of its stages
\* raised the dict is a Failure (error + failure_point).
C1_NeverRaises ==
    Returned =>
        /\ ~raised
        /\ IsSuccess(outcome) \/ IsFailure(outcome)
        /\ failed_in.stage # "" => IsFailure(outcome) /\ ~IsSuccess(outcome)

\* a store failure on a closed loop: the stage and the scheduling both fail
C1_Witness ==
    /\ Returned
    /\ failed_in.stage = "store"
    /\ HandlesSupplied /\ args.event_loop.v = "closed"
    /\ IsFailure(outcome)

\* C2 as stated: schedule_rtvi_message is invoked exactly once in every
\* invocation, whatever the path and whether or not the handles were supplied.
C2_DispatcherExactlyOnce ==
    Returned => Count(calls, "schedule_rtvi_message") = 1

\* C2 amended: every invocation enters the notifying step exactly once; on the
\* success path, and on a failure path with both handles supplied,
\* schedule_rtvi_message is invoked exactly once; on a failure path with a
\* handle missing it is not invoked; it is never invoked twice.
C2_NotifyingOnce ==
    Returned =>
        IF IsSuccess(outcome)
        THEN /\ Count(calls, "schedule_rtvi_message") = 1
             /\ Count(calls, "_schedule_error_message") = 0
        ELSE /\ Count(calls, "_schedule_error_message") = 1
             /\ Count(calls, "schedule_rtvi_message") = IF HandlesSupplied THEN 1 ELSE 0

C2_Witness ==
    /\ Returned
    /\ IsFailure(outcome)
    /\ ~HandlesSupplied
    /\ Count(calls, "schedule_rtvi_message") = 0
    /\ Count(calls, "_schedule_error_message") = 1

\* C3: a query that is None, empty or whitespace-only ends in Failure with
\* stage "input_validation", and neither the embedding service nor the
\* document store is called in that invocation.
C3_BlankQueryRejected ==
    Invoked /\ BlankQuery(args.text_query) =>
        /\ Count(calls, "_generate_embedding") = 0
        /\ Count(calls, "execute_search_query") = 0
        /\ pc \notin {"embedding", "composing", "querying", "formatting"}
        /\ Returned => /\ IsFailure(outcome)
                       /\ outcome["failure_point"] = Str("input_validation")

C3_Witness ==
    /\ Returned
    /\ args.text_query = Str(<<" ", " ">>)
    /\ outcome["failure_point"] = Str("input_validation")

\* C4 as stated: when the embedding call raises, the outcome is Failure with
\* stage "embedding_generation".
C4_StageEmbeddingGeneration ==
    Returned /\ failed_in.stage = "embedding" =>
        IsFailure(outcome) /\ outcome["failure_point"] = Str("embedding_generation")

\* C4 amended: when the embedding call raises, the outcome is Failure with
\* stage "openai_api_call" whose message is "OpenAI API error: " followed by
\* the underlying error text, and the document store is never queried.
C4_EmbeddingFailure ==
    failed_in.stage = "embedding" =>
        /\ Count(calls, "execute_search_query") = 0
        /\ pc \notin {"composing", "querying", "formatting"}
        /\ Returned => /\ IsFailure(outcome)
                       /\ outcome["failure_point"] = Str("openai_api_call")
                       /\ outcome["error"] = Str(<<"OpenAI API error: ", failed_in.exc>>)

C4_Witness ==
    /\ Returned
    /\ failed_in = [stage |-> "embedding", exc |-> "Connection error."]
    /\ outcome["error"] = Str(<<"OpenAI API error: ", "Connection error.">>)

\* C5 as stated: when building the filter, building the plan or the store
\* query raises, the outcome is Failure with stage "data_store_operation".
C5_StageDataStoreOperation ==
    Returned /\ failed_in.stage = "store" =>
        IsFailure(outcome) /\ outcome["failure_point"] = Str("data_store_operation")

\* C5 amended: when building the filter, building the plan or the store query
\* raises after a successful embedding, the outcome is Failure with stage
\* "mongodb_operation", and the embedding call occurred exactly once.
C5_StoreFailure ==
    failed_in.stage = "store" =>
        /\ Count(calls, "_generate_embedding") = 1
        /\ Returned => /\ IsFailure(outcome)
                       /\ outcome["failure_point"] = Str("mongodb_operation")

\* the filter could not be built: the property type is not text
C5_Witness ==
    /\ Returned
    /\ failed_in.stage = "store"
    /\ args.property_type = Num(7)
    /\ Count(calls, "execute_search_query") = 0
    /\ outcome["failure_point"] = Str("mongodb_operation")


\* C6: an exception raised outside the embedding and store stages (result
\* formatting) is caught at the top level: the outcome is Failure with stage
\* "unexpected_error" carrying full_traceback, and the error notification is
\* still attempted: _schedule_error_message runs once and, with both handles
\* supplied, hands that Failure to schedule_rtvi_message.
C6_UnexpectedError ==
    failed_in.stage = "formatting" /\ pc \in {"returning", "done"} =>
        /\ ~raised
        /\ IsFailure(outcome)
        /\ outcome["failure_point"] = Str("unexpected_error")
        /\ "full_traceback" \in DOMAIN outcome
        /\ Truthy(outcome["full_traceback"])
        /\ Count(calls, "_schedule_error_message") = 1
        /\ Count(calls, "schedule_rtvi_message") = IF HandlesSupplied THEN 1 ELSE 0
        /\ task.state = "scheduled" => task.search_data = outcome

C6_Witness ==
    /\ Returned
    /\ failed_in.stage = "formatting"
    /\ results = <<GoodMatch, BrokenMatch>>
    /\ "full_traceback" \in DOMAIN outcome
    /\ task.state = "scheduled"

StageOrder ==
    <<"_generate_embedding", "build_match_conditions", "build_search_pipeline",
      "execute_search_query", "format_search_results">>

NotifyCalls ==
    {<<>>, <<"schedule_rtvi_message">>, <<"_schedule_error_message">>,
     <<"_schedule_error_message", "schedule_rtvi_message">>}

\* the stages that may have run when the given stage failed
StagesRunAtFailure(stage) ==
    CASE stage = "validation" -> {0}
      [] stage = "embedding"  -> {1}
      [] stage = "store"      -> {2, 3, 4}
      [] stage = "formatting" -> {5}
      [] OTHER                -> 0..5

\* C7: within one invocation the stages run only in the order embedding,
\* filter/plan composition, store execution, formatting, notification; once a
\* stage has failed no later stage other than notification runs, and the
\* notification then carries an error payload.
C7_StageOrder ==
    /\ \E n \in StagesRunAtFailure(failed_in.stage) : \E tail \in NotifyCalls :
          calls = SubSeq(StageOrder, 1, n) \o tail
    /\ failed_in.stage # "" =>
          /\ pc \in {"schedule_error", "returning", "done"}
          /\ task.state = "scheduled" => IsFailure(task.search_data)
          /\ task.state = "pushing" => task.message.type = "property_search_error"
          /\ \A i \in DOMAIN sent : sent[i].type = "property_search_error"

C7_Witness ==
    /\ Returned
    /\ failed_in.stage = "store"
    /\ calls = SubSeq(StageOrder, 1, 4) \o <<"_schedule_error_message", "schedule_rtvi_message">>
    /\ Len(sent) = 1
    /\ sent[1].type = "property_search_error"

\* C8: the envelope is of kind results iff the outcome is a Success with a
\* non-empty property list, and of kind error otherwise; when the store
\* returns no match the outcome is a Success with results_found = 0, and the
\* session gets an error envelope with the message "No properties found" and
\* no results envelope.
C8_EnvelopeKind ==
    LET envelopes == {sent[i] : i \in DOMAIN sent}
                     \cup (IF task.state = "pushing" THEN {task.message} ELSE {})
        zero_matches == pc \in {"schedule_success", "returning", "done"}
                        /\ failed_in.stage = "" /\ results = <<>>
    IN  /\ \A m \in envelopes :
              /\ m.type \in {"property_search_results", "property_search_error"}
              /\ m.type = "property_search_results"
                    <=> IsSuccess(outcome) /\ outcome["properties"].v # <<>>
        /\ zero_matches =>
              /\ IsSuccess(outcome)
              /\ outcome["results_found"] = Num(0)
              /\ \A m \in envelopes :
                    /\ m.type = "property_search_error"
                    /\ m.error = Str(<<"No properties found">>)

C8_Witness ==
    /\ Returned
    /\ IsSuccess(outcome)
    /\ outcome["results_found"] = Num(0)
    /\ Len(sent) = 1
    /\ sent[1].type = "property_search_error"
    /\ sent[1].error = Str(<<"No properties found">>)

\* a transmission that has neither finished nor reached its timeout
InFlight ==
    \/ task.state = "scheduled"
    \/ task.state = "pushing" /\ task.elapsed < timeout_of(task.message)

\* C9 as stated: schedule_rtvi_message does not return to its caller while
\* the transmission it scheduled is merely enqueued: once it has returned, the
\* transmission has finished or its timeout has elapsed.
C9_DispatcherBlocks ==
    pc \in {"returning", "done"} => ~InFlight

\* C9 amended: schedule_rtvi_message returns as soon as the coroutine is
\* enqueued, without waiting for it to start; the timeout of the envelope kind
\* (5 s for results, 3 s for error) bounds the await of push_frame inside the
\* coroutine on the session's loop: a push is never awaited longer, and it is
\* abandoned exactly when that long has elapsed.
C9_TimeoutOnLoop ==
    /\ [][(pc \in {"schedule_success", "schedule_error"} /\ pc' = "returning")
             => (task'.state \in {"none", "scheduled"})]_vars
    /\ [](task.state = "pushing" =>
             task.elapsed <= (IF task.message.type = "property_search_results"
                              THEN 5 ELSE 3))
    /\ [](task.state = "finished" /\ task.how = "timeout" =>
             task.after = (IF task.type = "property_search_results" THEN 5 ELSE 3))

C9_Witness ==
    /\ pc = "returning"
    /\ task.state = "scheduled"
    /\ IsSuccess(task.search_data)

\* C10: the orchestrator does not wait for delivery: with the worker thread
\* running and whatever the event loop does, also if it never runs the
\* coroutine, an invocation that has passed the notifying step returns.
C10_ReturnsWithoutDelivery ==
    [](pc = "returning" => <>(pc = "done"))

\* returned while the transmission is still pending on the loop
C10_Witness ==
    /\ Returned
    /\ task.state = "pushing"
    /\ task.elapsed = 0

\* ---------------------------------------------------------------------
\* The dispatcher called on its own, with any dict a caller may hand it
\* ---------------------------------------------------------------------

\* a formatted record that lost a field the envelope reads (prop["url"])
RecordWithoutUrl ==
    LET r == format_property(GoodMatch)
    IN  [k \in DOMAIN r \ {"url"} |-> r[k]]

PlainInvocation ==
    [text_query |-> Str(<<"a">>), event_loop |-> None, rtvi_instance |-> None] @@ NoFilters

\* search_data of schedule_rtvi_message: Success dicts with well-formed,
\* malformed and no records, a Failure dict, and a dict without any key
DispatchedData ==
    {search_result_of(PlainInvocation, <<1>>, <<GoodMatch>>, <<format_property(GoodMatch)>>, <<>>),
     search_result_of(PlainInvocation, <<1>>, <<GoodMatch>>, <<RecordWithoutUrl>>, <<>>),
     search_result_of(PlainInvocation, <<1>>, <<GoodMatch, GoodMatch>>,
                      <<format_property(GoodMatch), RecordWithoutUrl>>, <<>>),
     search_result_of(PlainInvocation, <<1>>, <<>>, <<>>, <<>>),
     _create_error_result(<<"MongoDB error: ", "OperationFailure">>, <<>>,
                          "mongodb_operation", Str(<<"a">>), None),
     EmptyDict}

\* the state at line 170 / line 228, search_data being any of DispatchedData
InitDispatcher ==
    /\ NoOtherInvocation
    /\ RealEstateBot
    /\ WebServer
    /\ OPENAI_API_KEY \in BOOLEAN
    /\ db_client = PropertyDatabase
    /\ time_readings = [n \in 1..LOG_CALLS |-> 0]
    /\ embedding_request = None
    /\ format_calls = <<>>
    /\ pc = "schedule_success"
    /\ \E el \in EventLoops, rtvi \in RtviInstances :
          args = [PlainInvocation EXCEPT !.event_loop = el, !.rtvi_instance = rtvi]
    /\ outcome \in DispatchedData
    /\ debug_log = <<>>
    /\ embedding_vector = <<>>
    /\ pipeline = <<>>
    /\ results = <<>>
    /\ raised = FALSE
    /\ failed_in = NoFailure
    /\ calls = <<>>
    /\ open_clients = 0
    /\ task = NoTask
    /\ sent = <<>>
    /\ pushed = <<>>
    /\ rtvi_log = <<>>

NextDispatcher ==
    \/ ScheduleSuccess
    \/ ReturnToCaller
    \/ EventLoop

SpecDispatcher == InitDispatcher /\ [][NextDispatcher]_vars

\* ---------------------------------------------------------------------
\* The formatter applied to the matches a store may return
\* ---------------------------------------------------------------------

\* a description of n characters, no two neighbours alike
description_text(n) ==
    [i \in 1..n |-> CASE i % 3 = 0 -> "d" [] i % 3 = 1 -> "e" [] OTHER -> " "]

DescriptionLengths ==
    {1, DESCRIPTION_CHARS - 1, DESCRIPTION_CHARS, DESCRIPTION_CHARS + 1, MaxDescLen}

\* mls_description: null, empty, a number, and texts around the 200 characters
Descriptions ==
    {None, Str(<<>>), Num(7)} \cup {Str(description_text(n)) : n \in DescriptionLengths}

\* the i-th analyzed image, distinct for each i
image_url(i) == [j \in 1..i |-> "/"]

\* images_analyzed: null, text, and lists of 0, 1, 3 and MaxImages URLs
AnalyzedImages ==
    {None, Str(<<"i">>)}
    \cup {List([i \in 1..n |-> image_url(i)]) : n \in {0, 1, IMAGES_SHOWN, MaxImages}}

\* a key left out, or present with one of the values
Optional(key, values) == {EmptyDict} \cup {key :> v : v \in values}

DetailsDocuments ==
    {a @@ d : a \in Optional("address", {Str("1 Main St")}),
              d \in Optional("mls_description", Descriptions)}

ProcessingDocuments ==
    {st @@ im : st \in Optional("status", {Str("done")}),
                im \in Optional("images_analyzed", AnalyzedImages)}

\* the documents of the collection as aggregate may return them: each
\* projected field present or not, sub-documents and score possibly null
FormatMatches ==
    {id @@ sc @@ pd @@ pi :
        id \in Optional("_id", {"p1"}),
        sc \in Optional("search_score", {None, Num(87655)}),
        pd \in Optional("property_details", {None} \cup {Dict(x) : x \in DetailsDocuments}),
        pi \in Optional("processing_info", {None} \cup {Dict(x) : x \in ProcessingDocuments})}

\* the state at line 140, execute_search_query having returned one match
InitFormat ==
    /\ NoOtherInvocation
    /\ RealEstateBot
    /\ WebServer
    /\ OPENAI_API_KEY = TRUE
    /\ db_client = PropertyDatabase
    /\ time_readings = [n \in 1..LOG_CALLS |-> 0]
    /\ embedding_request = Str(<<"a">>)
    /\ format_calls = <<>>
    /\ pc = "formatting"
    /\ args = PlainInvocation
    /\ debug_log = log_debug(log_debug(log_debug(log_debug(log_debug(<<>>,
                         "=== HYBRID SEARCH DEBUG SESSION STARTED ==="),
                         "Embedding generated"), "Match conditions"), "Pipeline stages"),
                         "Found results")
    /\ embedding_vector = <<1>>
    /\ pipeline = build_search_pipeline(
                      <<1>>, build_match_conditions(None, None, None, None, None, None, None).v,
                      PlainInvocation.limit, PlainInvocation.vector_search_index).v
    /\ \E m \in FormatMatches : results = <<m>>
    /\ outcome = None
    /\ raised = FALSE
    /\ failed_in = NoFailure
    /\ calls = SubSeq(StageOrder, 1, 4)
    /\ open_clients = 0
    /\ task = NoTask
    /\ sent = <<>>
    /\ pushed = <<>>
    /\ rtvi_log = <<>>

NextFormat ==
    \/ Format
    \/ ScheduleSuccess
    \/ ScheduleError
    \/ ReturnToCaller

SpecFormat == InitFormat /\ [][NextFormat]_vars

\* ---------------------------------------------------------------------
\* The formatter called repeatedly on the matches of one list
\* ---------------------------------------------------------------------

\* the state at line 140, with any non-empty list of raw matches
InitFormatter ==
    /\ NoOtherInvocation
    /\ RealEstateBot
    /\ WebServer
    /\ OPENAI_API_KEY = TRUE
    /\ db_client = PropertyDatabase
    /\ time_readings = [n \in 1..LOG_CALLS |-> 0]
    /\ embedding_request = Str(<<"a">>)
    /\ format_calls = <<>>
    /\ pc = "formatting"
    /\ args = PlainInvocation
    /\ debug_log = log_debug(log_debug(log_debug(log_debug(log_debug(<<>>,
                         "=== HYBRID SEARCH DEBUG SESSION STARTED ==="),
                         "Embedding generated"), "Match conditions"), "Pipeline stages"),
                         "Found results")
    /\ embedding_vector = <<1>>
    /\ pipeline = build_search_pipeline(
                      <<1>>, build_match_conditions(None, None, None, None, None, None, None).v,
                      PlainInvocation.limit, PlainInvocation.vector_search_index).v
    /\ results \in SeqsUpTo(RawMatches, MaxResults) \ {<<>>}
    /\ outcome = None
    /\ raised = FALSE
    /\ failed_in = NoFailure
    /\ calls = SubSeq(StageOrder, 1, 4)
    /\ open_clients = 0
    /\ task = NoTask
    /\ sent = <<>>
    /\ pushed = <<>>
    /\ rtvi_log = <<>>

\* db_client.format_search_results([results[i]]): the list holds the match
\* object itself, so what the call does to it shows in results
CallFormatter(i) ==
    /\ Len(format_calls) < MaxFormatCalls
    /\ LET call == format_search_results_call(db_client, <<results[i]>>)
       IN  /\ db_client' = call.self
           /\ results' = [results EXCEPT ![i] = call.results[1]]
           /\ format_calls' = Append(format_calls, [results |-> <<results[i]>>,
                                                    results_after |-> call.results,
                                                    returned |-> call.returned])
    /\ UNCHANGED <<other, botVars, webVars,
                   OPENAI_API_KEY, time_readings, embedding_request, pc, args, debug_log,
                   embedding_vector, pipeline, outcome, raised, failed_in, calls,
                   open_clients, task, sent, pushed, rtvi_log>>

NextFormatter == \E i \in DOMAIN results : CallFormatter(i)

SpecFormatter == InitFormatter /\ [][NextFormatter]_vars

\* ---------------------------------------------------------------------
\* The query composer applied to the filter arguments a caller may give
\* ---------------------------------------------------------------------

TorontoQuery ==
    <<"3", " ", "b", "e", "d", "r", "o", "o", "m", " ", "h", "o", "u", "s", "e", " ",
      "T", "o", "r", "o", "n", "t", "o">>

\* the request of the specification's concrete scenario
TorontoRequest ==
    [text_query |-> Str(TorontoQuery), event_loop |-> None, rtvi_instance |-> None,
     min_price |-> None, max_price |-> Num(500000), bedrooms |-> Str("3"),
     bathrooms |-> None, property_type |-> Str(<<"h", "o", "u", "s", "e">>),
     location_keywords |-> Str(<<"T", "o", "r", "o", "n", "t", "o">>),
     mls_genuine |-> None, limit |-> Num(5), vector_search_index |-> "vector_index"]

\* every filter absent, supplied but falsy, or supplied; a property type that
\* is not text; every limit up to MaxLimit and a limit that is not a number
ComposerRequests ==
    {[TorontoRequest EXCEPT !.min_price = lo, !.max_price = hi, !.bedrooms = bed,
                            !.bathrooms = bath, !.property_type = type,
                            !.location_keywords = loc, !.mls_genuine = mls, !.limit = lim] :
        lo \in {None, Num(0), Num(100000)},
        hi \in {None, Num(500000)},
        bed \in {None, Str(""), Str("3")},
        bath \in {None, Str("2")},
        type \in {None, Str(<<>>), Str(<<"h", "o", "u", "s", "e">>), Num(7)},
        loc \in {None, Str(<<"T", "o", "r", "o", "n", "t", "o">>), Str(<<"a", ".">>)},
        mls \in {None, Bool(FALSE), Bool(TRUE)},
        lim \in {None} \cup {Num(n) : n \in 1..MaxLimit}}

\* the state at line 104, the embedding having been generated
InitComposer ==
    /\ NoOtherInvocation
    /\ RealEstateBot
    /\ WebServer
    /\ OPENAI_API_KEY = TRUE
    /\ db_client = PropertyDatabase
    /\ time_readings = [n \in 1..LOG_CALLS |-> 0]
    /\ embedding_request = Str(Strip(TorontoQuery))
    /\ format_calls = <<>>
    /\ pc = "composing"
    /\ args \in ComposerRequests
    /\ debug_log = log_debug(log_debug(<<>>, "=== HYBRID SEARCH DEBUG SESSION STARTED ==="),
                             "Embedding generated")
    /\ embedding_vector = <<1, 0>>
    /\ pipeline = <<>>
    /\ results = <<>>
    /\ outcome = None
    /\ raised = FALSE
    /\ failed_in = NoFailure
    /\ calls = <<"_generate_embedding">>
    /\ open_clients = 0
    /\ task = NoTask
    /\ sent = <<>>
    /\ pushed = <<>>
    /\ rtvi_log = <<>>

NextComposer ==
    \/ Compose
    \/ ScheduleError
    \/ ReturnToCaller

SpecComposer == InitComposer /\ [][NextComposer]_vars

\* ---------------------------------------------------------------------
\* Invocations under every sequence of clock readings
\* ---------------------------------------------------------------------

\* a blank and a proper query, without filters and without handles
TraceInvocations ==
    {[PlainInvocation EXCEPT !.text_query = q] : q \in {Str(<<" ">>), Str(<<"a">>)}}

\* time.time() is the wall clock: between two calls of log_debug it may have
\* advanced, stood still, or been set back
InitTrace ==
    /\ NoOtherInvocation
    /\ RealEstateBot
    /\ WebServer
    /\ OPENAI_API_KEY \in BOOLEAN
    /\ db_client = PropertyDatabase
    /\ time_readings \in [1..LOG_CALLS -> 0..MaxClock]
    /\ embedding_request = None
    /\ format_calls = <<>>
    /\ pc = "idle"
    /\ args = None
    /\ debug_log = <<>>
    /\ embedding_vector = <<>>
    /\ pipeline = <<>>
    /\ results = <<>>
    /\ outcome = None
    /\ raised = FALSE
    /\ failed_in = NoFailure
    /\ calls = <<>>
    /\ open_clients = 0
    /\ task = NoTask
    /\ sent = <<>>
    /\ pushed = <<>>
    /\ rtvi_log = <<>>

NextTrace ==
    \/ \E a \in TraceInvocations : Invoke(a)
    \/ Worker
    \/ Release

SpecTrace == InitTrace /\ [][NextTrace]_vars

\* ---------------------------------------------------------------------
\* Invocations under a fair scheduler
\* ---------------------------------------------------------------------

\* a blank and a proper query with every combination of filters and handles
LiveInvocations ==
    { [text_query |-> q, event_loop |-> l, rtvi_instance |-> r] @@ f :
        q \in {Str(<<" ">>), Str(<<"a">>)}, f \in FilterInputs,
        l \in EventLoops, r \in RtviInstances }

NextLive ==
    \/ \E a \in LiveInvocations : Invoke(a)
    \/ Worker
    \/ EventLoop
    \/ Release

\* what a running loop does whatever the session does: it starts the coroutine
\* it was handed, its clock advances and the timer of asyncio.wait_for fires
LoopProgress ==
    \/ CoroutineStart
    \/ Tick
    \/ PushTimesOut

\* the worker thread keeps running (every call it makes returns or raises) and
\* so does the loop; push_frame itself need never complete
SpecLive == Init /\ [][NextLive]_vars /\ WF_vars(Worker) /\ WF_vars(LoopProgress)

\* ---------------------------------------------------------------------
\* The web server of app.py: start() and cleanup()
\* ---------------------------------------------------------------------

\* the URL of the n-th room; room 0 is the sample room of the environment
RoomUrl(n) == Str(<<"room", n>>)

\* create_room_and_token, lines 94-112: the sample room of the environment if
\* there is one, else a room newly created by Daily; HTTPException when the
\* room has no URL or no token is obtained
create_room_and_token ==
    {Raise("Failed to get token for room")}
    \cup (IF Truthy(DAILY_SAMPLE_ROOM_URL)
          THEN {Return(DAILY_SAMPLE_ROOM_URL)}
          ELSE {Raise("Failed to create room"), Return(RoomUrl(Len(spawned) + 1))})

\* start(), lines 121-128; the FunctionCall of the n-th spawn is n
start ==
    /\ lifespan.state = "serving"
    /\ Len(spawned) < MaxStarts
    /\ \E answer \in create_room_and_token :
          IF answer.ok
          THEN LET room_url == answer.v
                   function_call == Len(spawned) + 1
               IN  /\ spawned' = Append(spawned, [function_call |-> function_call,
                                                  room_url |-> room_url])
                   /\ bot_jobs' = [r \in DOMAIN bot_jobs \cup {room_url} |->
                                      IF r = room_url THEN function_call ELSE bot_jobs[r]]
          ELSE UNCHANGED <<bot_jobs, spawned>>
    /\ UNCHANGED <<DAILY_SAMPLE_ROOM_URL, cancel_calls, lifespan, searchVars, other, botVars>>

\* bot_jobs.values(): the values in the order of insertion, which is the
\* order of the FunctionCall numbers
RECURSIVE values(_)
values(jobs) ==
    IF jobs = {} THEN <<>>
    ELSE LET first == CHOOSE j \in jobs : \A k \in jobs : j <= k
         IN  <<first>> \o values(jobs \ {first})

\* the shutdown part of lifespan, line 149, calling cleanup(), lines 70-76:
\* cancel() is called on every value of bot_jobs, an exception of it is
\* printed and the loop goes on
cleanup ==
    /\ lifespan.state = "serving"
    /\ LET function_calls == values({bot_jobs[r] : r \in DOMAIN bot_jobs})
       IN  \E raises \in [DOMAIN function_calls -> BOOLEAN] :
              cancel_calls' =
                  [i \in DOMAIN function_calls |->
                      [function_call |-> function_calls[i], raised |-> raises[i]]]
    /\ lifespan' = [state |-> "stopped"]
    /\ UNCHANGED <<DAILY_SAMPLE_ROOM_URL, bot_jobs, spawned, searchVars, other, botVars>>

\* the server as deployed, with or without DAILY_SAMPLE_ROOM_URL
InitWeb ==
    /\ NoOtherInvocation
    /\ RealEstateBot
    /\ DAILY_SAMPLE_ROOM_URL \in {None, RoomUrl(0)}
    /\ bot_jobs = EmptyDict
    /\ spawned = <<>>
    /\ cancel_calls = <<>>
    /\ lifespan = [state |-> "serving"]
    /\ OPENAI_API_KEY = TRUE
    /\ db_client = PropertyDatabase
    /\ time_readings = [n \in 1..LOG_CALLS |-> 0]
    /\ embedding_request = None
    /\ format_calls = <<>>
    /\ pc = "idle"
    /\ args = None
    /\ debug_log = <<>>
    /\ embedding_vector = <<>>
    /\ pipeline = <<>>
    /\ results = <<>>
    /\ outcome = None
    /\ raised = FALSE
    /\ failed_in = NoFailure
    /\ calls = <<>>
    /\ open_clients = 0
    /\ task = NoTask
    /\ sent = <<>>
    /\ pushed = <<>>
    /\ rtvi_log = <<>>

NextWeb ==
    \/ start
    \/ cleanup

SpecWeb == InitWeb /\ [][NextWeb]_vars

\* ---------------------------------------------------------------------
\* The search handler of bot.py: handle_property_search_queries
\* ---------------------------------------------------------------------

\* the first position of the list that holds one of the wanted elements, or 0:
\* the loops of lines 89-94 and 100-104 stop at the first hit
FirstIndex(list, wanted) ==
    IF \E i \in DOMAIN list : list[i] \in wanted
    THEN CHOOSE i \in DOMAIN list :
             list[i] \in wanted /\ \A j \in 1..(i - 1) : list[j] \notin wanted
    ELSE 0

\* the handles a call of the tool passes on to execute_hybrid_search: the
\* closure of lines 80-86 adds self.rtvi and the loop of its handler, the tool
\* itself is left with the defaults of property_search.py, lines 40-41
handles_of(tool) ==
    IF tool.__name__ = "execute_search_with_context"
    THEN [event_loop |-> [t |-> "loop", v |-> "running"], rtvi_instance |-> [t |-> "rtvi"]]
    ELSE [event_loop |-> None, rtvi_instance |-> None]

\* lines 73-97, up to the await: the first tool named execute_hybrid_search
\* is kept in original_tool and replaced by the closure of this invocation,
\* then the agent is started in the executor
HandlerStarts(h) ==
    /\ handlers[h].pc # "agent_running"
    /\ LET i == FirstIndex(tools, {tools[k] : k \in {n \in DOMAIN tools :
                                        tools[n].__name__ = "execute_hybrid_search"}})
       IN  IF i = 0
           THEN /\ handlers' = [handlers EXCEPT ![h] = [pc |-> "agent_running",
                                                        original_tool |-> None]]
                /\ UNCHANGED tools
           ELSE /\ handlers' = [handlers EXCEPT ![h] = [pc |-> "agent_running",
                                                        original_tool |-> tools[i]]]
                /\ tools' = [tools EXCEPT ![i] = execute_search_with_context(h)]
    /\ UNCHANGED <<tool_calls, searchVars, other, webVars>>

\* the agent, running in the executor thread for the handler invocation h,
\* calls the search tool its tool list holds
AgentCallsTool(h) ==
    /\ handlers[h].pc = "agent_running"
    /\ Len(tool_calls) < MaxToolCalls
    /\ tool_calls' = Append(tool_calls, [handler |-> h, tool |-> tools[1].__name__]
                                          @@ handles_of(tools[1]))
    /\ UNCHANGED <<tools, handlers, searchVars, other, webVars>>

\* lines 97-110: the agent returned; the closure of this invocation is
\* replaced by original_tool if there is one, and the answer is handed on
AgentReturns(h) ==
    /\ handlers[h].pc = "agent_running"
    /\ LET original_tool == handlers[h].original_tool
           i == FirstIndex(tools, {execute_search_with_context(h)})
       IN  IF Truthy(original_tool) /\ i # 0
           THEN tools' = [tools EXCEPT ![i] = original_tool]
           ELSE UNCHANGED tools
    /\ handlers' = [handlers EXCEPT ![h] = [pc |-> "done", original_tool |-> None]]
    /\ UNCHANGED <<tool_calls, searchVars, other, webVars>>

\* lines 97 and 112-121: the agent raised; the handler logs the error and
\* answers with the apology
AgentRaises(h) ==
    /\ handlers[h].pc = "agent_running"
    /\ handlers' = [handlers EXCEPT ![h] = [pc |-> "done", original_tool |-> None]]
    /\ UNCHANGED <<tools, tool_calls, searchVars, other, webVars>>

NextBot ==
    \/ \E h \in Handlers : HandlerStarts(h)
    \/ \E h \in Handlers : AgentCallsTool(h)
    \/ \E h \in Handlers : AgentReturns(h)
    \/ \E h \in Handlers : AgentRaises(h)

SpecBot == Init /\ [][NextBot]_vars

Notified == Count(calls, "schedule_rtvi_message") >= 1

\* C11: called without a session handle or without an event-loop handle, the
\* dispatcher logs a warning, schedules nothing on any loop, transmits
\* nothing, and returns to the orchestrator without raising.
C11_NoOpWithoutHandles ==
    (Invoked /\ Notified /\ ~HandlesSupplied) =>
        /\ rtvi_log = <<"WARNING Event loop or RTVI instance not available">>
        /\ task = NoTask
        /\ pushed = <<>>
        /\ sent = <<>>
        /\ ~raised
        /\ pc \in {"returning", "done"}

\* the loop runs, the session handle is missing, the search had succeeded
C11_Witness ==
    /\ Returned
    /\ Notified
    /\ args.event_loop = [t |-> "loop", v |-> "running"]
    /\ args.rtvi_instance = None
    /\ rtvi_log # <<>>

\* C12: per invocation at most one push_frame call is made; a transmission
\* that exceeds its timeout is dropped: nothing reaches the session, no second
\* push follows, and no error envelope follows a timed-out results envelope.
C12_AtMostOnePush ==
    /\ Len(pushed) <= 1
    /\ Len(sent) <= Len(pushed)
    /\ \A i \in DOMAIN sent : sent[i] = pushed[i]
    /\ (task.state = "finished" /\ task.how = "timeout") =>
          /\ Len(pushed) = 1
          /\ pushed[1].type = task.type
          /\ sent = <<>>
    /\ task.state = "pushing" => pushed = <<task.message>>

\* a results envelope timed out after RTVI_MESSAGE_TIMEOUT seconds
C12_Witness ==
    /\ task.state = "finished"
    /\ task.how = "timeout"
    /\ task.type = "property_search_results"
    /\ task.after = RTVI_MESSAGE_TIMEOUT
    /\ Len(pushed) = 1

Computed == pc \in {"schedule_success", "schedule_error", "returning", "done"}

\* the failure_point each failing stage writes
FailurePointOf(stage) ==
    CASE stage = "validation" -> Str("input_validation")
      [] stage = "embedding"  -> Str("openai_api_call")
      [] stage = "store"      -> Str("mongodb_operation")
      [] stage = "formatting" -> Str("unexpected_error")

\* C13: the returned outcome does not depend on delivery: it is complete
\* before the notifying step begins, its variant and stage are those of the
\* stages that ran, and no step of the dispatcher or of the coroutine, whether
\* delivery succeeds, times out, raises or is skipped, changes it.
C13_OutcomeIndependentOfDelivery ==
    /\ []((pc \in {"schedule_success", "schedule_error"}) =>
             (outcome # None /\ task = NoTask /\ pushed = <<>> /\ rtvi_log = <<>>))
    /\ [](Computed =>
             /\ IsSuccess(outcome) <=> failed_in.stage = ""
             /\ IsFailure(outcome) <=> failed_in.stage # ""
             /\ IsFailure(outcome) =>
                   outcome["failure_point"] = FailurePointOf(failed_in.stage))
    /\ [][(Computed /\ pc' # "idle") => (outcome' = outcome /\ failed_in' = failed_in)]_vars

\* a Success was returned although its delivery raised on the loop
C13_Witness ==
    /\ Returned
    /\ IsSuccess(outcome)
    /\ task.state = "finished"
    /\ task.how = "error"

\* C14: the dispatcher never raises back to its caller: a failure while
\* scheduling onto the loop, while building the envelope, or inside
\* push_frame is caught and logged, on the worker thread and on the loop.
C14_DispatcherNeverRaises ==
    /\ ~raised
    /\ pc \in {"schedule_success", "returning", "done"}
    /\ task.state = "finished" =>
          /\ task.how \in {"sent", "timeout", "error", "no_rtvi"}
          /\ task.how = "error" =>
                rtvi_log[Len(rtvi_log)] \in {"ERROR Error sending RTVI search results",
                                             "ERROR Error sending RTVI error message"}
    /\ (pc # "schedule_success" /\ HandlesSupplied /\ args.event_loop.v = "closed") =>
          /\ task = NoTask
          /\ rtvi_log = <<"ERROR Error scheduling RTVI message">>

\* building the envelope failed on a record without "url": nothing was pushed
C14_Witness ==
    /\ Returned
    /\ task.state = "finished"
    /\ task.how = "error"
    /\ pushed = <<>>
    /\ results_message_raises(outcome)

\* C15: every connection execute_search_query opened has been closed once it
\* has returned or raised, so the number of open connections is zero.
C15_ConnectionsReleased ==
    open_clients = 0

\* C16: a store error is re-raised from execute_search_query with its message
\* preserved after a single query attempt, and in one invocation at most one
\* embedding call and at most one store query are made, whatever fails.
C16_NoRetryNoSwallow ==
    /\ Count(calls, "_generate_embedding") <= 1
    /\ Count(calls, "execute_search_query") <= 1
    /\ pc = "querying" =>
          \A b \in store_behaviours(pipeline) :
              b.at # "return" => execute_search_query(b).answer = Raise(b.exc)
    /\ (Computed /\ failed_in.stage = "store" /\ Count(calls, "execute_search_query") = 1) =>
          /\ failed_in.exc \in StoreErrors
          /\ results = <<>>
          /\ outcome["error"] = Str(<<"MongoDB error: ", failed_in.exc>>)
    /\ (Computed /\ Count(calls, "execute_search_query") = 1 /\ failed_in.stage = "") =>
          \E b \in store_behaviours(pipeline) : b.at = "return" /\ b.docs = results

\* the single query attempt raised and the orchestrator reported its message
C16_Witness ==
    /\ Returned
    /\ Count(calls, "execute_search_query") = 1
    /\ Count(calls, "_generate_embedding") = 1
    /\ failed_in = [stage |-> "store", exc |-> "OperationFailure"]
    /\ outcome["error"] = Str(<<"MongoDB error: ", "OperationFailure">>)

\* format_search_results has produced the record of the one match
Formatted ==
    /\ pc \in {"schedule_success", "returning", "done"}
    /\ IsSuccess(outcome)
    /\ Len(results) = 1
    /\ Len(outcome["properties"].v) = 1

FormattedRecord == outcome["properties"].v[1]
SourceDetails == Get(results[1], "property_details", Dict(EmptyDict)).v
SourceProcessing == Get(results[1], "processing_info", Dict(EmptyDict)).v
SourceImages == Get(SourceProcessing, "images_analyzed", List(<<>>))
SourceDescription == Get(SourceDetails, "mls_description", Str(<<>>))

\* C17: format_search_results never raises: every raw match, also one with a
\* null sub-document, a null score or a description that is not text, yields
\* a record.
C17_FormatNeverRaises ==
    Count(calls, "format_search_results") = 1 =>
        /\ failed_in.stage # "formatting"
        /\ IsSuccess(outcome)
        /\ Len(outcome["properties"].v) = Len(results)

\* C18: image_urls has at most 3 entries; without analyzed images (absent,
\* empty, or not a list) it is exactly 3 placeholder URLs, each containing the
\* record identifier; with a non-empty list it is the list's first three
\* entries in order.
C18_ImageUrls ==
    Formatted =>
        LET urls == FormattedRecord.image_urls
            id == FormattedRecord.property_id
        IN  /\ Len(urls) <= 3
            /\ (SourceImages.t # "list" \/ SourceImages.v = <<>>) =>
                  /\ Len(urls) = 3
                  /\ \A i \in 1..3 : \E j \in DOMAIN urls[i] : urls[i][j] = id
                  /\ Cardinality({urls[i] : i \in 1..3}) = 3
            /\ (SourceImages.t = "list" /\ SourceImages.v # <<>>) =>
                  urls = SubSeq(SourceImages.v, 1, Min(3, Len(SourceImages.v)))
            /\ FormattedRecord.primary_image = urls[1]

\* of four analyzed images the first three are kept
C18_Witness ==
    /\ Formatted
    /\ SourceImages.t = "list"
    /\ Len(SourceImages.v) = MaxImages
    /\ Len(FormattedRecord.image_urls) = 3

\* C19: a description longer than 200 characters is formatted as its first
\* 200 characters followed by "..."; an absent or empty description is
\* formatted as the empty string.
C19_LongDescriptionTruncated ==
    Formatted =>
        /\ (SourceDescription.t = "str" /\ Len(SourceDescription.v) > 200) =>
              FormattedRecord.description =
                  Str(SubSeq(SourceDescription.v, 1, 200) \o <<".", ".", ".">>)
        /\ ("mls_description" \notin DOMAIN SourceDetails
            \/ SourceDescription.t = "none"
            \/ (SourceDescription.t = "str" /\ SourceDescription.v = <<>>)) =>
              FormattedRecord.description = Str(<<>>)

\* the longest description was cut to 200 characters and the marker
C19_Witness ==
    /\ Formatted
    /\ SourceDescription.t = "str"
    /\ Len(SourceDescription.v) = MaxDescLen
    /\ Len(FormattedRecord.description.v) = 203

\* C20: a non-empty description of at most 200 characters is formatted
\* unmodified: no ellipsis marker is appended.
C20_ShortDescriptionUnmodified ==
    (Formatted /\ SourceDescription.t = "str"
     /\ Len(SourceDescription.v) \in 1..200) =>
        FormattedRecord.description = SourceDescription

Composed == pc = "querying"

StageNames(plan) == [i \in DOMAIN plan |-> plan[i].stage]

\* the FilterExpression the plan applies: that of its $match stage, if any
FilterOf(plan) ==
    IF \E i \in DOMAIN plan : plan[i].stage = "$match"
    THEN (CHOOSE st \in {plan[i] : i \in DOMAIN plan} : st.stage = "$match").conditions
    ELSE EmptyDict

TorontoFilters ==
    /\ args.min_price = None
    /\ args.max_price = Num(500000)
    /\ args.bedrooms = Str("3")
    /\ args.bathrooms = None
    /\ args.property_type = Str(<<"h", "o", "u", "s", "e">>)
    /\ args.location_keywords = Str(<<"T", "o", "r", "o", "n", "t", "o">>)
    /\ args.mls_genuine = None

\* C22 as stated: for the Toronto request the composed FilterExpression
\* contains exactly 3 predicates.
C22_ThreePredicates ==
    (Composed /\ TorontoFilters) => Cardinality(DOMAIN FilterOf(pipeline)) = 3

\* C22: for the Toronto request the composed FilterExpression contains
\* exactly the 4 predicates listed: price upper bound 500000, bedrooms
\* equality "3", case-insensitive type match "house", case-insensitive
\* location match "Toronto".
C22_FourPredicates ==
    (Composed /\ TorontoFilters) =>
        LET f == FilterOf(pipeline)
        IN  /\ DOMAIN f = {"property_details.listed_price", "property_details.bedrooms",
                           "property_details.property_type", "property_details.address"}
            /\ Cardinality(DOMAIN f) = 4
            /\ f["property_details.listed_price"].v = ("$lte" :> Num(500000))
            /\ f["property_details.bedrooms"] = Str("3")
            /\ f["property_details.property_type"].v =
                   [regex |-> <<"h", "o", "u", "s", "e">>, options |-> "i"]
            /\ f["property_details.address"].v =
                   [regex |-> <<"T", "o", "r", "o", "n", "t", "o">>, options |-> "i"]

\* the Toronto request itself has been composed
C22_Witness ==
    /\ Composed
    /\ args = TorontoRequest
    /\ Len(pipeline) = 6

\* C23: for every positive limit the plan's vector stage has candidate pool
\* min(100, limit*10) and intermediate limit 5 * limit, and its final stage
\* limits to limit; for limit = 5 these are 50, 25 and 5.
C23_PlanSizes ==
    Composed =>
        LET limit == args.limit.v
            vector_stage == pipeline[1]
            final_stage == pipeline[Len(pipeline)]
        IN  /\ limit >= 1
            /\ vector_stage.stage = "$vectorSearch"
            /\ vector_stage.numCandidates = (IF limit * 10 < 100 THEN limit * 10 ELSE 100)
            /\ vector_stage.limit = 5 * limit
            /\ final_stage.stage = "$limit"
            /\ final_stage.n = limit
            /\ limit = 5 => /\ vector_stage.numCandidates = 50
                            /\ vector_stage.limit = 25
                            /\ final_stage.n = 5

\* a limit whose tenfold exceeds 100: the candidate pool is capped
C23_Witness ==
    /\ Composed
    /\ args.limit.v > 10
    /\ pipeline[1].numCandidates = 100
    /\ pipeline[1].limit > 50

\* C26 as stated: the vector stage is first and the stages that follow are
\* [filter], projection, descending sort, final limit.
C26_FiveStages ==
    Composed =>
        StageNames(pipeline) =
            <<"$vectorSearch">>
            \o (IF DOMAIN FilterOf(pipeline) # {} THEN <<"$match">> ELSE <<>>)
            \o <<"$project", "$sort", "$limit">>

\* C26: the plan is the vector stage, the stage adding search_score, the
\* filter stage iff the FilterExpression composed from the arguments is
\* non-empty (holding exactly that expression), the projection, the
\* descending sort by search_score, and the final limit, in this order.
C26_StageOrder ==
    Composed =>
        LET f == build_match_conditions(args.min_price, args.max_price, args.bedrooms,
                                        args.bathrooms, args.property_type,
                                        args.location_keywords, args.mls_genuine).v
            n == Len(pipeline)
        IN  /\ StageNames(pipeline) =
                   <<"$vectorSearch", "$addFields">>
                   \o (IF DOMAIN f # {} THEN <<"$match">> ELSE <<>>)
                   \o <<"$project", "$sort", "$limit">>
            /\ DOMAIN f # {} => pipeline[3].conditions = f
            /\ pipeline[2].field = "search_score"
            /\ pipeline[n - 2].fields = ProjectedFields
            /\ pipeline[n - 1].field = "search_score"
            /\ pipeline[n - 1].order = -1

\* no filter was supplied: the plan has no filter stage
C26_Witness ==
    /\ Composed
    /\ \A k \in {"min_price", "max_price", "bedrooms", "bathrooms", "property_type",
                 "location_keywords", "mls_genuine"} : args[k] = None
    /\ StageNames(pipeline) = <<"$vectorSearch", "$addFields", "$project", "$sort", "$limit">>

Supplied(value) == value # None

\* the field path of each filter group, with the arguments that supply it
FilterGroups ==
    [k \in {"property_details.listed_price", "property_details.bedrooms",
            "property_details.bathrooms", "property_details.property_type",
            "property_details.address", "property_details.mls_is_genuine"} |->
        CASE k = "property_details.listed_price" -> {"min_price", "max_price"}
          [] k = "property_details.bedrooms" -> {"bedrooms"}
          [] k = "property_details.bathrooms" -> {"bathrooms"}
          [] k = "property_details.property_type" -> {"property_type"}
          [] k = "property_details.address" -> {"location_keywords"}
          [] k = "property_details.mls_is_genuine" -> {"mls_genuine"}]

\* C27: build_match_conditions maps each supplied filter group to exactly one
\* predicate and each absent one to none; the price range has a lower bound
\* iff min_price was supplied and an upper bound iff max_price was; supplied
\* but falsy values (0, false, "") still produce their predicate; bedrooms
\* and bathrooms are passed through as given.
C27_OnePredicatePerFilter ==
    Composed =>
        LET f == FilterOf(pipeline)
            price == "property_details.listed_price"
        IN  /\ DOMAIN f = {k \in DOMAIN FilterGroups :
                              \E a \in FilterGroups[k] : Supplied(args[a])}
            /\ price \in DOMAIN f =>
                  /\ "$gte" \in DOMAIN f[price].v <=> Supplied(args.min_price)
                  /\ "$lte" \in DOMAIN f[price].v <=> Supplied(args.max_price)
                  /\ Supplied(args.min_price) => f[price].v["$gte"] = args.min_price
                  /\ Supplied(args.max_price) => f[price].v["$lte"] = args.max_price
            /\ Supplied(args.bedrooms) => f["property_details.bedrooms"] = args.bedrooms
            /\ Supplied(args.bathrooms) => f["property_details.bathrooms"] = args.bathrooms
            /\ Supplied(args.mls_genuine) =>
                  f["property_details.mls_is_genuine"] = args.mls_genuine
            /\ Supplied(args.property_type) =>
                  f["property_details.property_type"].v =
                      [regex |-> re_escape(args.property_type.v), options |-> "i"]
            /\ Supplied(args.location_keywords) =>
                  f["property_details.address"].v =
                      [regex |-> re_escape(args.location_keywords.v), options |-> "i"]

\* min_price 0, an empty bedrooms string, an empty property type and the
\* verified flag false each produced their predicate
C27_Witness ==
    /\ Composed
    /\ args.min_price = Num(0)
    /\ args.max_price = None
    /\ args.bedrooms = Str("")
    /\ args.bathrooms = None
    /\ args.property_type = Str(<<>>)
    /\ args.location_keywords = None
    /\ args.mls_genuine = Bool(FALSE)
    /\ Cardinality(DOMAIN FilterOf(pipeline)) = 4

SpecTags ==
    {Str("input_validation"), Str("embedding_generation"), Str("data_store_operation"),
     Str("unexpected_error")}

CodeTags ==
    {Str("input_validation"), Str("openai_api_call"), Str("mongodb_operation"),
     Str("unexpected_error")}

ExactlyOneVariant(o) ==
    /\ IsSuccess(o) # IsFailure(o)
    /\ IsFailure(o) => {"search_completed", "properties"} \cap DOMAIN o = {}

\* C24 as stated: every returned outcome is exactly one of Success and
\* Failure, and the stage tag of a Failure is one of input_validation,
\* embedding_generation, data_store_operation, unexpected_error.
C24_SpecStageTags ==
    Computed =>
        /\ ExactlyOneVariant(outcome)
        /\ IsFailure(outcome) => outcome["failure_point"] \in SpecTags

\* C24: every returned outcome is exactly one of Success and Failure, and the
\* failure_point of a Failure is one of input_validation, openai_api_call,
\* mongodb_operation, unexpected_error.
C24_OneVariantCodeTags ==
    Computed =>
        /\ ExactlyOneVariant(outcome)
        /\ IsFailure(outcome) => outcome["failure_point"] \in CodeTags

\* a Failure of the store stage was returned
C24_Witness ==
    /\ Returned
    /\ IsFailure(outcome)
    /\ ~IsSuccess(outcome)
    /\ outcome["failure_point"] = Str("mongodb_operation")

\* C25: for every Failure delivered to the session, the error message of the
\* envelope is distinct from the diagnostic message stored in the outcome.
C25_EnvelopeMessageDistinct ==
    \A i \in DOMAIN pushed :
        (IsFailure(outcome) /\ pushed[i].type = "property_search_error") =>
            pushed[i].error # outcome["error"]

\* the states of the orchestrator as the specification names them
SpecState(p) ==
    CASE p \in {"composing", "querying"} -> "composing_and_querying"
      [] p \in {"schedule_success", "schedule_error"} -> "notifying"
      [] OTHER -> p

\* C28: every state transition of the orchestrator, also one into a failed
\* state, appends exactly one entry to the trace.
C28_EntryPerTransition ==
    [][(/\ pc \in {"validating", "embedding", "composing", "querying", "formatting"}
        /\ SpecState(pc') # SpecState(pc))
       => (Len(debug_log') = Len(debug_log) + 1)]_vars

\* entries are only appended during an invocation
TraceAppendOnly ==
    [][(pc # "idle" /\ pc' # "idle") =>
          (/\ Len(debug_log') >= Len(debug_log)
           /\ SubSeq(debug_log', 1, Len(debug_log)) = debug_log)]_vars

\* the returned outcome carries the whole trace, which is not empty
TraceDelivered ==
    Computed => (outcome["debug_log"] = List(debug_log) /\ debug_log # <<>>)

StampsNonDecreasing ==
    \A i, j \in DOMAIN debug_log :
        i < j => debug_log[i].timestamp <= debug_log[j].timestamp

\* C29: the trace is append-only, its elapsed-time stamps are non-decreasing,
\* and the trace of the returned outcome is the complete sequence of entries
\* appended during the invocation, in order, and non-empty.
C29_TraceMonotone ==
    /\ TraceAppendOnly
    /\ [](TraceDelivered /\ StampsNonDecreasing)

\* the trace is append-only and delivered whole, whatever the stamps
TraceAppendOnlyDelivered ==
    /\ TraceAppendOnly
    /\ []TraceDelivered

\* the request is the query without the whitespace around it
IsTrimmed(request, query) ==
    /\ request # <<>>
    /\ request[1] \notin Whitespace
    /\ request[Len(request)] \notin Whitespace
    /\ \E lead \in 0..Len(query) :
          /\ lead + Len(request) <= Len(query)
          /\ SubSeq(query, lead + 1, lead + Len(request)) = request
          /\ \A i \in 1..lead : query[i] \in Whitespace
          /\ \A i \in (lead + Len(request) + 1)..Len(query) : query[i] \in Whitespace

\* C30: the text sent to the embedding service is the query with leading and
\* trailing whitespace removed; the query recorded in the returned outcome
\* and in the notification envelope is the text the caller supplied.
C30_TrimmedOnlyForEmbedding ==
    /\ embedding_request # None => IsTrimmed(embedding_request.v, args.text_query.v)
    /\ (OPENAI_API_KEY /\ Count(calls, "_generate_embedding") = 1) =>
          embedding_request # None
    /\ Computed => outcome["query"] = args.text_query
    /\ \A i \in DOMAIN pushed : pushed[i].query = args.text_query

\* " a" was embedded as "a" and reported as " a"
C30_Witness ==
    /\ Returned
    /\ args.text_query = Str(<<" ", "a">>)
    /\ embedding_request = Str(<<"a">>)
    /\ outcome["query"] = Str(<<" ", "a">>)
    /\ Len(pushed) = 1
    /\ pushed[1].query = Str(<<" ", "a">>)

\* the keys of property_details and the fields of the record made from them
DetailFields ==
    [address |-> "address", price |-> "listed_price", currency |-> "currency",
     bedrooms |-> "bedrooms", bathrooms |-> "bathrooms",
     property_type |-> "property_type", mls_number |-> "mls_number",
     mls_genuine |-> "mls_is_genuine"]

\* C34: each of the address, price, currency, bedrooms, bathrooms,
\* property-type and MLS fields that is absent from a raw match is "N/A" in
\* the formatted record, and a missing similarity score counts as 0 before
\* rounding.
C34_AbsentFieldsNA ==
    Formatted =>
        /\ \A field \in DOMAIN DetailFields :
              DetailFields[field] \notin DOMAIN SourceDetails =>
                  FormattedRecord[field] = Str("N/A")
        /\ "search_score" \notin DOMAIN results[1] => FormattedRecord.search_score = 0

\* what holds: every absent field but the currency is "N/A", an absent
\* currency is "CAD", and an absent score is 0
AbsentFieldsDefaults ==
    Formatted =>
        /\ \A field \in DOMAIN DetailFields :
              DetailFields[field] \notin DOMAIN SourceDetails =>
                  FormattedRecord[field] = Str(IF field = "currency" THEN "CAD" ELSE "N/A")
        /\ "search_score" \notin DOMAIN results[1] => FormattedRecord.search_score = 0

\* C35: for every positive limit the intermediate limit of the vector stage
\* (5 x limit) does not exceed its candidate pool (min(100, limit * 10)): the
\* plan never asks the vector stage for more documents than it considers.
C35_IntermediateWithinPool ==
    (Composed /\ args.limit.v >= 1) => pipeline[1].limit <= pipeline[1].numCandidates

\* what holds: the intermediate limit is within the pool up to a limit of 20
IntermediateWithinPoolUpTo20 ==
    (Composed /\ args.limit.v >= 1) =>
        (pipeline[1].limit <= pipeline[1].numCandidates <=> args.limit.v <= 20)

\* C36: in every Success outcome results_found is the number of property
\* records and the number of similarity scores; the i-th record is the
\* formatting of the i-th raw match the store returned (order kept, none
\* dropped or duplicated) and the i-th score is that record's score.
C36_OutcomeMatchesResults ==
    (Computed /\ IsSuccess(outcome)) =>
        LET properties == outcome["properties"].v
            top_similarity_scores == outcome["top_similarity_scores"].v
        IN  /\ outcome["results_found"] = Num(Len(results))
            /\ Len(properties) = Len(results)
            /\ Len(top_similarity_scores) = Len(results)
            /\ \A i \in DOMAIN results :
                  /\ properties[i] = format_property(results[i])
                  /\ properties[i].property_id = Get(results[i], "_id", "")
                  /\ top_similarity_scores[i] = properties[i].search_score

\* two different matches were returned and reported in the store's order
C36_Witness ==
    /\ Returned
    /\ IsSuccess(outcome)
    /\ results = <<BareMatch, GoodMatch>>
    /\ outcome["results_found"] = Num(2)
    /\ outcome["properties"].v[1].property_id = "p2"
    /\ outcome["properties"].v[2].property_id = "p1"
    /\ outcome["top_similarity_scores"].v = <<0, round4(87655)>>

\* a step of the worker thread inside execute_hybrid_search
WorkerStep == pc' # pc /\ pc \notin {"idle", "done"}

\* the session received a frame or was handed one
SessionTouched == pushed' # pushed \/ sent' # sent

\* the loop of the session is running the coroutine of this invocation
OnSessionLoop ==
    /\ task.state \in {"scheduled", "pushing"}
    /\ Truthy(args.event_loop)
    /\ args.event_loop.v = "running"

\* C33: the envelope is built and pushed on the session's event loop only:
\* the worker thread running the orchestrator only schedules the coroutine
\* and never itself calls push_frame or touches the state of the session.
C33_TransmissionOnLoopOnly ==
    [][/\ WorkerStep => (/\ ~SessionTouched
                         /\ task' # task => (/\ pc \in {"schedule_success", "schedule_error"}
                                             /\ task = NoTask
                                             /\ task'.state = "scheduled"))
       /\ (SessionTouched /\ pc' # "idle") => (OnSessionLoop /\ pc' = pc)]_vars

\* the loop pushed the envelope while the worker had not yet returned
C33_Witness ==
    /\ pc = "returning"
    /\ task.state = "finished"
    /\ Len(pushed) = 1
    /\ sent = pushed

\* C32: every call of the embedding service and of the store returning or
\* raising, every invocation reaches the notifying step and then returns; and
\* a transmission coroutine scheduled on a running loop finishes, by
\* completing, failing or timing out, even if push_frame never completes.
C32_RunsToCompletion ==
    /\ (pc = "validating") ~> (pc \in {"schedule_success", "schedule_error"})
    /\ (pc \in {"schedule_success", "schedule_error"}) ~> (pc = "done")
    /\ (task.state = "scheduled") ~> (task.state = "finished")

\* an invocation returned and its coroutine was ended by the timer
C32_Witness ==
    /\ Returned
    /\ task.state = "finished"
    /\ task.how = "timeout"
    /\ sent = <<>>

\* the FunctionCall objects spawned so far
SpawnedJobs == {spawned[i].function_call : i \in DOMAIN spawned}
HeldJobs == {bot_jobs[r] : r \in DOMAIN bot_jobs}
CancelledJobs == {cancel_calls[i].function_call : i \in DOMAIN cancel_calls}

\* C39: after any sequence of start() calls every bot job that was spawned is
\* still held in bot_jobs, so cleanup() at shutdown attempts to cancel every
\* spawned job, also when several starts use the same room URL, and a cancel
\* that raises does not keep the remaining jobs from being cancelled.
C39_EverySpawnedJobCancelled ==
    /\ SpawnedJobs \subseteq HeldJobs
    /\ lifespan.state = "stopped" => SpawnedJobs \subseteq CancelledJobs

\* what holds: cleanup() calls cancel() once on every job bot_jobs holds,
\* whichever of the calls raise; bot_jobs holds the last job of each room
CleanupCancelsHeldJobs ==
    /\ HeldJobs \subseteq SpawnedJobs
    /\ \A i \in DOMAIN spawned :
          spawned[i].function_call \in HeldJobs <=>
             ~\E j \in DOMAIN spawned : j > i /\ spawned[j].room_url = spawned[i].room_url
    /\ lifespan.state = "stopped" =>
          /\ CancelledJobs = HeldJobs
          /\ Len(cancel_calls) = Cardinality(HeldJobs)

AgentRunning == \E h \in Handlers : handlers[h].pc = "agent_running"
WrapperInstalled ==
    \E i \in DOMAIN tools : tools[i].__name__ = "execute_search_with_context"

\* C37: after handle_property_search_queries completes, the agent run having
\* returned or raised, the tool list of the agent again holds the original
\* execute_hybrid_search tool and no context-bound wrapper: after any
\* sequence of handler invocations the tool list has its initial value.
C37_ToolListRestored ==
    ~AgentRunning => tools = <<execute_hybrid_search_tool>>

\* C38: for any interleaving of two overlapping invocations of the handler,
\* whenever an agent run is in progress the context-bound wrapper is in the
\* tool list of the agent, so every search the agent executes receives an
\* event loop and a session handle.
C38_WrapperWhileAgentRuns ==
    /\ AgentRunning => WrapperInstalled
    /\ \A i \in DOMAIN tool_calls :
          Truthy(tool_calls[i].event_loop) /\ Truthy(tool_calls[i].rtvi_instance)

\* ---------------------------------------------------------------------
\* Two invocations of execute_hybrid_search on two executor threads
\* ---------------------------------------------------------------------

\* the frame of the running invocation: the parameters and locals of
\* execute_hybrid_search (text_query .. rtvi_instance, debug_log,
\* query_embedding, pipeline, results, search_result), the coroutine it
\* handed to the loop and what that coroutine pushed and logged
Invocation ==
    [pc |-> pc, args |-> args, debug_log |-> debug_log,
     embedding_vector |-> embedding_vector, pipeline |-> pipeline, results |-> results,
     outcome |-> outcome, raised |-> raised, failed_in |-> failed_in, calls |-> calls,
     embedding_request |-> embedding_request, format_calls |-> format_calls,
     task |-> task, sent |-> sent, pushed |-> pushed, rtvi_log |-> rtvi_log]

\* Switch, with debug_log a list of the module that both threads append to
SwitchSharingTrace ==
    /\ other # Invocation
    /\ other' = Invocation
    /\ pc' = other.pc
    /\ args' = other.args
    /\ debug_log' = debug_log
    /\ embedding_vector' = other.embedding_vector
    /\ pipeline' = other.pipeline
    /\ results' = other.results
    /\ outcome' = other.outcome
    /\ raised' = other.raised
    /\ failed_in' = other.failed_in
    /\ calls' = other.calls
    /\ embedding_request' = other.embedding_request
    /\ format_calls' = other.format_calls
    /\ task' = other.task
    /\ sent' = other.sent
    /\ pushed' = other.pushed
    /\ rtvi_log' = other.rtvi_log
    /\ UNCHANGED <<botVars, webVars,
                   OPENAI_API_KEY, db_client, time_readings, open_clients>>

\* the interpreter suspends the running thread and resumes the other one:
\* each thread finds the parameters and locals of its own call (debug_log
\* and start_time are made on lines 63-64 of each call); the names of the
\* module, openai_client and db_client of lines 21-25, the environment, the
\* clock and the store are the same for both
Switch ==
    /\ other # Invocation
    /\ other' = Invocation
    /\ pc' = other.pc
    /\ args' = other.args
    /\ debug_log' = other.debug_log
    /\ embedding_vector' = other.embedding_vector
    /\ pipeline' = other.pipeline
    /\ results' = other.results
    /\ outcome' = other.outcome
    /\ raised' = other.raised
    /\ failed_in' = other.failed_in
    /\ calls' = other.calls
    /\ embedding_request' = other.embedding_request
    /\ format_calls' = other.format_calls
    /\ task' = other.task
    /\ sent' = other.sent
    /\ pushed' = other.pushed
    /\ rtvi_log' = other.rtvi_log
    /\ UNCHANGED <<botVars, webVars,
                   OPENAI_API_KEY, db_client, time_readings, open_clients>>

\* two requests of one session that differ in the query and in every filter
ConcurrentInvocations ==
    { [text_query |-> Str(<<"a">>), event_loop |-> [t |-> "loop", v |-> "running"],
       rtvi_instance |-> [t |-> "rtvi"]]
          @@ [NoFilters EXCEPT !.min_price = Num(0), !.bathrooms = Str("2"),
                               !.property_type = Str(<<"a", ".">>),
                               !.mls_genuine = Bool(FALSE), !.limit = Num(1)],
      [text_query |-> Str(<<"b">>), event_loop |-> [t |-> "loop", v |-> "running"],
       rtvi_instance |-> [t |-> "rtvi"]]
          @@ [NoFilters EXCEPT !.max_price = Num(500000), !.bedrooms = Str("3"),
                               !.location_keywords = Str(<<"T", "o">>),
                               !.limit = Num(1)] }

\* the loop runs the coroutines of both invocations
Delivery ==
    \/ CoroutineStart
    \/ PushCompletes
    \/ PushRaises

NextConcurrent ==
    \/ \E a \in ConcurrentInvocations : other.args # a /\ Invoke(a)
    \/ Worker
    \/ Delivery
    \/ Switch

SpecConcurrent == Init /\ [][NextConcurrent]_vars

\* what one invocation is entitled to, given only its own frame f
ComputedPcs == {"schedule_success", "schedule_error", "returning", "done"}
TraceMessages ==
    <<"=== HYBRID SEARCH DEBUG SESSION STARTED ===", "Embedding generated",
      "Match conditions", "Pipeline stages", "Found results",
      "=== HYBRID SEARCH COMPLETED SUCCESSFULLY ===">>

Called(f, name) == \E i \in DOMAIN f.calls : f.calls[i] = name

\* the number of trace entries the invocation itself has written so far
OwnTraceLength(f) ==
    CASE f.pc = "idle" -> 0
      [] f.pc \in {"validating", "embedding"} -> 1
      [] f.pc = "composing" -> 2
      [] f.pc = "querying" -> 4
      [] f.pc = "formatting" -> 5
      [] f.pc \in ComputedPcs ->
            CASE f.failed_in.stage = "" -> 6
              [] f.failed_in.stage \in {"validation", "embedding"} -> 1
              [] f.failed_in.stage = "store" ->
                    IF Called(f, "execute_search_query") THEN 4
                    ELSE IF Called(f, "build_search_pipeline") THEN 3 ELSE 2
              [] f.failed_in.stage = "formatting" -> 5

\* the outcome as a function of the invocation's own arguments, its own
\* embedding and store responses and its own trace
OwnOutcome(f) ==
    CASE f.failed_in.stage = "" ->
            search_result_of(f.args, f.embedding_vector, f.results,
                             format_search_results(f.results).v, f.debug_log)
      [] f.failed_in.stage = "validation" ->
            _create_error_result(<<"Text query is empty or None">>, f.debug_log,
                                 "input_validation", f.args.text_query, None)
      [] f.failed_in.stage = "embedding" ->
            _create_error_result(<<"OpenAI API error: ", f.failed_in.exc>>, f.debug_log,
                                 "openai_api_call", f.args.text_query, None)
      [] f.failed_in.stage = "store" ->
            _create_error_result(<<"MongoDB error: ", f.failed_in.exc>>, f.debug_log,
                                 "mongodb_operation", f.args.text_query, None)
      [] f.failed_in.stage = "formatting" ->
            _create_error_result(
                <<"Unexpected error in hybrid search: ", f.failed_in.exc>>, f.debug_log,
                "unexpected_error", f.args.text_query,
                Str(<<"Traceback (most recent call last): ", f.failed_in.exc>>))

\* the envelope as a function of the invocation's own outcome and query
OwnEnvelope(f) ==
    IF sends_results(f.outcome) THEN results_message(f.outcome, f.args.text_query)
    ELSE error_message(f.outcome, f.args.text_query)

DependsOnOwnInputsOnly(f) ==
    /\ [i \in DOMAIN f.debug_log |-> f.debug_log[i].message]
          = SubSeq(TraceMessages, 1, OwnTraceLength(f))
    /\ f.pc \in {"schedule_success", "schedule_error"} => f.pushed = <<>>
    /\ f.pc \in ComputedPcs =>
          /\ f.outcome = OwnOutcome(f)
          /\ \A i \in DOMAIN f.pushed : f.pushed[i] = OwnEnvelope(f)
          /\ \A i \in DOMAIN f.sent : f.sent[i] = OwnEnvelope(f)
          /\ f.task.state = "pushing" => f.task.message = OwnEnvelope(f)
    /\ f.pc \notin ComputedPcs => f.outcome = None /\ f.pushed = <<>> /\ f.sent = <<>>

\* C31: concurrent invocations of execute_hybrid_search are independent: in
\* any interleaving of two simultaneous invocations, the trace, the outcome
\* and the notification envelope of each are determined by its own
\* arguments and its own embedding and store responses, so that no trace
\* entry, filter, result or error of one appears in the other's.
C31_ConcurrentInvocationsIndependent ==
    /\ DependsOnOwnInputsOnly(Invocation)
    /\ DependsOnOwnInputsOnly(other)

\* one invocation ran from start to finish and sent its results while the
\* other, with other arguments and other matches, was suspended between the
\* store's answer and the formatting
C31_Witness ==
    /\ pc = "done" /\ IsSuccess(outcome) /\ sent # <<>>
    /\ other.pc = "formatting"
    /\ other.args # None /\ other.args # args
    /\ other.results # <<>> /\ other.results # results

====
